---- MODULE Spec2Model ----
(***************************************************************************)
(* Model of the diagnosis / recommendation engine of the customer-care     *)
(* agent: the account-block evaluator, the KYC timeline evaluator, the     *)
(* redemption-eligibility evaluator and the scan-history evaluator.        *)
(*                                                                         *)
(* Every evaluator reads its record files, applies its decision tree and   *)
(* returns a verdict dictionary.  A file is a sequence of rows, a row is a *)
(* record of raw column values, and a verdict is a record.  Each evaluator *)
(* has its own specification: Init draws the files from bounded sets and   *)
(* the action is one call of the evaluator with inputs drawn from small    *)
(* sets.                                                                   *)
(*                                                                         *)
(* Raw values.  A timestamp cell is an integer: Blank (empty cell), Junk    *)
(* (text that no format parses) or a positive number, the instant the      *)
(* well-formed text denotes.  The parsers map Blank and Junk to None.  A   *)
(* number cell is Blank, Junk or the integer its text denotes.             *)
(* Optional string arguments use "" for both None and the empty string,    *)
(* which the code never distinguishes (it tests them with `not x`).        *)
(***************************************************************************)
EXTENDS Integers, Sequences, FiniteSets, TLC

VARIABLES
    blockFile,      \* data/mock_extended.csv: [exists, rows]
    blockVerdict,   \* last result of check_account_block_status
    kycFile,        \* data/mock.csv: [exists, rows]
    kycVerdict,     \* last result of kyc_status_checker_tool
    transferFile,   \* data/cash_transfer.csv: [exists, rows]
    pointFile,      \* data/point_history.csv: [exists, rows]
    balanceResult,  \* last result of _compute_point_balance
    redeemVerdict,  \* last result of get_cash_transfer_history
    scanFile,       \* data/code_history.csv: [exists, rows]
    refFile,        \* data/code_history_reference.csv: [exists, rows]
    scanVerdict,    \* last result of query_code_history
    call,           \* arguments of the last evaluator call, <<>> before it
    complaintsFile, \* data/complaints.json: [state, records]
    today,          \* the day datetime.now() falls on
    toolResult,     \* last result of a complaint_manager tool
    workers         \* per job process: the create call it is running

vars == <<blockFile, blockVerdict, kycFile, kycVerdict, transferFile, pointFile,
          balanceResult, redeemVerdict, scanFile, refFile, scanVerdict, call,
          complaintsFile, today, toolResult, workers>>

blockVars == <<blockFile, blockVerdict>>
kycVars == <<kycFile, kycVerdict>>
redeemVars == <<transferFile, pointFile, balanceResult, redeemVerdict>>
scanVars == <<scanFile, refFile, scanVerdict>>
storeVars == <<complaintsFile, today, toolResult, workers>>

\* ------------------------------------------------------------------------
\* Shared raw values
\* ------------------------------------------------------------------------

\* Python's None where the other values are integers.
None == 0 - 2000000000

\* An empty cell of a timestamp or number column.
Blank == 0 - 2000000001

\* A cell holding text that no date format and no number parser accepts.
Junk == 0 - 2000000002

\* Python's `a or b` on optional integers that are never 0 when present.
OrElse(a, b) == IF a # None THEN a ELSE b

\* The verdict variable before any call.
NoVerdict == [success |-> FALSE, error |-> "no_call_yet"]

EmptyFile == [exists |-> TRUE, rows |-> <<>>]

\* Job processes that share data/complaints.json.
MaxWorkers == 2

\* No complaints file yet and no complaint_manager tool called.
StoreIdle ==
    /\ complaintsFile = [state |-> "missing", records |-> <<>>]
    /\ today = 1
    /\ toolResult = NoVerdict
    /\ workers = [w \in 1..MaxWorkers |-> [pc |-> "idle", outcome |-> <<>>]]

\* ------------------------------------------------------------------------
\* Account block evaluator (tools/account_block_status.py)
\* ------------------------------------------------------------------------

\* datetime.now(), in seconds.
Now == 1000000

SecondsPerHour == 3600

AutoUnblockHours == 48

ComplaintTimelineDays == 7

\* _clean_opus followed by zfill(6), on the identifier texts of the model.
_normalize_opus_digits(raw) ==
    CASE raw = "1" -> "000001"
      [] raw = "PC-000001" -> "000001"
      [] raw = "2" -> "000002"
      [] raw = "PC-000002" -> "000002"
      [] OTHER -> ""

\* _clean_phone: the digits of the text ("" stands for None).
_clean_phone(raw) ==
    CASE raw = "90000 00001" -> "9000000001"
      [] OTHER -> raw

\* _parse_block_date: None for an empty or unparseable cell.
_parse_block_dateOff(value) == IF value # Blank THEN value ELSE None

_parse_block_date(value) == IF value > 0 THEN value ELSE None

_status_label(code) ==
    CASE code = "U" -> "Unblocked"
      [] code = "A" -> "Automatic Block"
      [] code = "M" -> "Manual Block"
      [] code = "P" -> "Permanent Block"
      [] OTHER -> "Unknown"

_block_through_label(code) ==
    CASE code = "O" -> "OTP related activity"
      [] code = "S" -> "Suspicious/Incorrect scans"
      [] OTHER -> "None"

\* int(delta.total_seconds() // 3600): floor of the elapsed hours.
HoursSinceBlock(block_dt, now) ==
    IF block_dt = None THEN None ELSE (now - block_dt) \div SecondsPerHour

\* block_dt + timedelta(hours=48)
ExpectedUnblockOff(block_dt) == block_dt + AutoUnblockHours * 60

ExpectedUnblock(block_dt) == block_dt + AutoUnblockHours * SecondsPerHour

\* strftime("%Y-%m-%d %H:%M"): the seconds are dropped.
FormatMinute(t) == IF t = None THEN None ELSE (t \div 60) * 60

\* strftime("%Y-%m-%d"): the time of day is dropped.
FormatDate(t) == IF t = None THEN None ELSE (t \div 86400) * 86400

\* The test `hours_since_block < 48` of the automatic branch.
WithinAutoWindowOff(hours) == hours <= AutoUnblockHours

WithinAutoWindow(hours) == hours < AutoUnblockHours

\* The first row matching the opus query, else the first matching the phone.
BlockMatchOpus(rows, query_opus) ==
    {i \in 1..Len(rows) :
        \/ _normalize_opus_digits(rows[i].opus_id) = query_opus
        \/ _normalize_opus_digits(rows[i].opus_pc_id) = query_opus}

BlockMatchPhone(rows, query_phone) ==
    {i \in 1..Len(rows) : _clean_phone(rows[i].mobile_number) = query_phone}

MinOf(S) == CHOOSE x \in S : \A y \in S : x <= y

MatchedBlockRow(rows, opus_id, mobile_number) ==
    LET query_opus == IF opus_id # "" THEN _normalize_opus_digits(opus_id) ELSE ""
        query_phone == IF mobile_number # "" THEN _clean_phone(mobile_number) ELSE ""
        byOpus == IF query_opus # "" THEN BlockMatchOpus(rows, query_opus) ELSE {}
        byPhone == IF query_phone # "" THEN BlockMatchPhone(rows, query_phone) ELSE {}
    IN  IF byOpus # {} THEN MinOf(byOpus)
        ELSE IF byPhone # {} THEN MinOf(byPhone)
        ELSE 0

\* The test `block_status == 'U' or block_status == ''` of the first branch.
IsNotBlockedOff(st) == st = ""

IsNotBlockedStrict(st) == st = "U"

IsNotBlocked(st) == st = "U" \/ st = ""

\* The decision tree over one matched row; `st` and `through` are the
\* stripped, upper-cased cells.
BlockDecision(st, through, block_dt, hours) ==
    LET expected_at == IF block_dt = None THEN None
                       ELSE FormatMinute(ExpectedUnblock(block_dt))
        expected_date == IF block_dt = None THEN None
                         ELSE FormatDate(ExpectedUnblock(block_dt))
    IN
    IF IsNotBlocked(st) THEN
        [recommendation |-> "none",
         message |-> [text |-> "not_blocked"],
         advice |-> <<[type |-> "NOT_BLOCKED"]>>]
    ELSE IF st = "A" THEN
        IF hours = None THEN
            [recommendation |-> "wait",
             message |-> [text |-> "auto_time_unavailable_wait_up_to_48h"],
             advice |-> <<[type |-> "WAIT_UNTIL_48_HOURS",
                           next_action |-> "create_enquiry_tool"]>>]
        ELSE IF WithinAutoWindow(hours) THEN
            [recommendation |-> "wait",
             message |-> [text |-> "auto_blocked_wait",
                          hours |-> hours,
                          reason_msg |-> IF through = "S" THEN "due to multiple incorrect scans"
                                         ELSE IF through = "O" THEN "due to OTP-related activity"
                                         ELSE "automatically",
                          unblock_by |-> expected_at],
             advice |-> <<[type |-> "WAIT_UNTIL_48_HOURS",
                           reason |-> _block_through_label(through),
                           expected_unblock_at |-> expected_at,
                           expected_unblock_date |-> expected_date,
                           next_action |-> "create_enquiry_tool"]>>
                        \o (IF through = "S" THEN <<[type |-> "GUIDE_SCAN_PRACTICES"]>> ELSE <<>>)
                        \o (IF through = "O" THEN <<[type |-> "GUIDE_OTP_PRACTICES"]>> ELSE <<>>)]
        ELSE
            [recommendation |-> "complaint",
             message |-> [text |-> "auto_exceeded_48h_raise_complaint"],
             advice |-> <<[type |-> "RAISE_COMPLAINT_OVER_48_HOURS",
                           timeline_days |-> ComplaintTimelineDays,
                           next_action |-> "create_complaint_tool"]>>]
    ELSE IF st = "M" THEN
        [recommendation |-> "complaint",
         message |-> [text |-> "manual_block_tsm_decides",
                      when |-> FormatDate(block_dt)],
         advice |-> <<[type |-> "RAISE_COMPLAINT_MANUAL_BLOCK",
                       tsm_decision |-> TRUE,
                       timeline_days |-> ComplaintTimelineDays,
                       next_action |-> "create_complaint_tool"]>>]
    ELSE IF st = "P" THEN
        [recommendation |-> "complaint",
         message |-> [text |-> "permanent_block_raise_complaint"],
         advice |-> <<[type |-> "RAISE_COMPLAINT_PERMANENT_BLOCK",
                       timeline_days |-> ComplaintTimelineDays,
                       next_action |-> "create_complaint_tool"]>>]
    ELSE
        [recommendation |-> "complaint",
         message |-> [text |-> "unknown_block_status"],
         advice |-> <<[type |-> "UNKNOWN_BLOCK_STATUS",
                       next_action |-> "create_complaint_tool"]>>]

\* The cell after (value or '').strip().upper(), on the texts of the model.
StripUpper(cell) ==
    CASE cell = " a " -> "A"
      [] cell = "s" -> "S"
      [] OTHER -> cell

check_account_block_status(file, opus_id, mobile_number, now) ==
    IF opus_id = "" /\ mobile_number = "" THEN
        [success |-> FALSE, error |-> "provide_opus_id_or_mobile_number"]
    ELSE IF ~file.exists THEN
        [success |-> FALSE, error |-> "data_file_not_found"]
    ELSE
        LET m == MatchedBlockRow(file.rows, opus_id, mobile_number) IN
        IF m = 0 THEN
            [success |-> TRUE, customer_found |-> FALSE,
             message |-> [text |-> "no_matching_customer"],
             query |-> [opus_id |-> opus_id, mobile_number |-> mobile_number]]
        ELSE
            LET row == file.rows[m]
                st == StripUpper(row.block_status)
                through == StripUpper(row.block_through)
                block_dt == _parse_block_date(row.block_status_date)
                hours == HoursSinceBlock(block_dt, now)
                d == BlockDecision(st, through, block_dt, hours)
            IN  [success |-> TRUE,
                 query |-> [opus_id |-> opus_id, mobile_number |-> mobile_number],
                 customer |-> [opus_id |-> row.opus_id,
                               mobile_number |-> row.mobile_number],
                 block |-> [status |-> st,
                            status_label |-> _status_label(st),
                            block_status_date |-> row.block_status_date,
                            block_through |-> through,
                            block_through_label |-> _block_through_label(through)],
                 timeline_info |->
                     [expected_auto_unblock_at |->
                          IF block_dt = None THEN None
                          ELSE FormatMinute(ExpectedUnblock(block_dt)),
                      expected_auto_unblock_date |->
                          IF block_dt = None THEN None
                          ELSE FormatDate(ExpectedUnblock(block_dt)),
                      hours_since_block |-> hours,
                      block_date |-> FormatMinute(block_dt)],
                 recommendation |-> d.recommendation,
                 message |-> d.message,
                 advice |-> d.advice]

\* Elapsed seconds between the block timestamp and now, around the 48-hour
\* threshold, with a future timestamp and a long-expired one.
ElapsedSamples ==
    {0 - 3600, 0, 36000, 172799, 172800, 172801, 176399, 176400, 600000}

BlockDateCells == {Blank, Junk} \cup {Now - e : e \in ElapsedSamples}

BlockStatusCells == {"U", "A", " a ", "M", "P", "X", ""}

BlockThroughCells == {"O", "S", "s", ""}

BlockRows ==
    [opus_id : {"1"}, opus_pc_id : {"PC-000001"}, mobile_number : {"90000 00001"},
     block_status : BlockStatusCells,
     block_status_date : BlockDateCells,
     block_through : BlockThroughCells]

BlockOpusQueries == {"", "1", "PC-000001", "2"}

BlockPhoneQueries == {"", "9000000001", "9000000002"}

OthersIdleForBlock ==
    /\ kycFile = EmptyFile /\ kycVerdict = NoVerdict
    /\ transferFile = EmptyFile /\ pointFile = EmptyFile
    /\ balanceResult = NoVerdict /\ redeemVerdict = NoVerdict
    /\ scanFile = EmptyFile /\ refFile = EmptyFile /\ scanVerdict = NoVerdict

InitBlock ==
    /\ \/ blockFile = [exists |-> FALSE, rows |-> <<>>]
       \/ \E r \in BlockRows : blockFile = [exists |-> TRUE, rows |-> <<r>>]
    /\ blockVerdict = NoVerdict
    /\ call = <<>>
    /\ StoreIdle
    /\ OthersIdleForBlock

CheckAccountBlockStatus ==
    /\ \E o \in BlockOpusQueries, p \in BlockPhoneQueries :
          /\ blockVerdict' = check_account_block_status(blockFile, o, p, Now)
          /\ call' = <<[opus_id |-> o, mobile_number |-> p]>>
    /\ UNCHANGED <<blockFile, kycVars, redeemVars, scanVars, storeVars>>

NextBlock == CheckAccountBlockStatus

SpecBlock == InitBlock /\ [][NextBlock]_vars

\* C1: for a matched record with block status Automatic and a parseable block
\* timestamp, the recommendation is "wait" exactly when less than 48 hours
\* have elapsed since the block timestamp and "complaint" exactly when 48 hours
\* or more have elapsed; exactly 48 hours yields "complaint".
C1_AutomaticBlock48h ==
    ("recommendation" \in DOMAIN blockVerdict
        /\ blockVerdict.block.status = "A"
        /\ blockFile.rows[1].block_status_date > 0)
    => LET elapsed == Now - blockFile.rows[1].block_status_date
           limit == AutoUnblockHours * SecondsPerHour
       IN  /\ (blockVerdict.recommendation = "wait") <=> (elapsed < limit)
           /\ (blockVerdict.recommendation = "complaint") <=> (elapsed >= limit)

\* An Automatic block evaluated exactly 48 hours after the block timestamp.
C1_Witness ==
    /\ "recommendation" \in DOMAIN blockVerdict
    /\ blockVerdict.block.status = "A"
    /\ Now - blockFile.rows[1].block_status_date = AutoUnblockHours * SecondsPerHour
    /\ blockVerdict.recommendation = "complaint"

\* C12: for a matched record with status Automatic whose block timestamp
\* cell is empty or unparseable, the call is never an error, the hours since
\* the block are unknown, and the verdict is "wait" with the "advise waiting
\* up to 48 hours" message and the single advice item WAIT_UNTIL_48_HOURS;
\* it is never "complaint".
C12_AutomaticWithoutTimestampWaits ==
    (/\ blockVerdict # NoVerdict
     /\ blockFile.exists
     /\ StripUpper(blockFile.rows[1].block_status) = "A"
     /\ blockFile.rows[1].block_status_date \in {Blank, Junk})
    => /\ blockVerdict.success
          \/ blockVerdict.error = "provide_opus_id_or_mobile_number"
       /\ "recommendation" \in DOMAIN blockVerdict
          => /\ blockVerdict.recommendation = "wait"
             /\ blockVerdict.message.text = "auto_time_unavailable_wait_up_to_48h"
             /\ Len(blockVerdict.advice) = 1
             /\ blockVerdict.advice[1].type = "WAIT_UNTIL_48_HOURS"
             /\ \A k \in 1..Len(blockVerdict.advice) :
                   blockVerdict.advice[k].next_action # "create_complaint_tool"
             /\ blockVerdict.timeline_info.hours_since_block = None
             /\ blockVerdict.timeline_info.expected_auto_unblock_at = None

\* An Automatic block with an unparseable timestamp, evaluated as "wait".
C12_Witness ==
    /\ "recommendation" \in DOMAIN blockVerdict
    /\ blockVerdict.block.status = "A"
    /\ blockFile.rows[1].block_status_date = Junk
    /\ blockVerdict.recommendation = "wait"
    /\ blockVerdict.message.text = "auto_time_unavailable_wait_up_to_48h"

\* C13 as stated: for a matched record with status Unblocked the
\* recommendation is "none" and the advice is exactly [NOT_BLOCKED]; the
\* recommendation, message, advice and timeline information are those of the
\* same record with an empty block timestamp and an empty block reason, and
\* no expected auto-unblock time and no hours since the block are reported.
C13_UnblockedIgnoresTimestampAndReason ==
    ("recommendation" \in DOMAIN blockVerdict /\ blockVerdict.block.status = "U")
    => LET bare == [blockFile EXCEPT !.rows[1].block_status_date = Blank,
                                     !.rows[1].block_through = ""]
           base == check_account_block_status(bare, blockVerdict.query.opus_id,
                                              blockVerdict.query.mobile_number, Now)
       IN  /\ blockVerdict.recommendation = "none"
           /\ blockVerdict.advice = <<[type |-> "NOT_BLOCKED"]>>
           /\ blockVerdict.recommendation = base.recommendation
           /\ blockVerdict.message = base.message
           /\ blockVerdict.advice = base.advice
           /\ blockVerdict.timeline_info = base.timeline_info
           /\ blockVerdict.timeline_info.expected_auto_unblock_at = None
           /\ blockVerdict.timeline_info.hours_since_block = None

\* C13, amended: for a matched record with status Unblocked the
\* recommendation is "none", the message says the account is not blocked and
\* the advice is exactly [NOT_BLOCKED], whatever the block timestamp and the
\* block reason hold; the timeline information still reports the hours since
\* the block and the expected auto-unblock time (block time + 48 hours)
\* whenever the block timestamp parses, and nothing when it does not.
C13_UnblockedDecisionIgnoresTimestampAndReason ==
    ("recommendation" \in DOMAIN blockVerdict /\ blockVerdict.block.status = "U")
    => LET bare == [blockFile EXCEPT !.rows[1].block_status_date = Blank,
                                     !.rows[1].block_through = ""]
           base == check_account_block_status(bare, blockVerdict.query.opus_id,
                                              blockVerdict.query.mobile_number, Now)
           t == blockFile.rows[1].block_status_date
           info == blockVerdict.timeline_info
       IN  /\ blockVerdict.recommendation = "none"
           /\ blockVerdict.message = [text |-> "not_blocked"]
           /\ blockVerdict.advice = <<[type |-> "NOT_BLOCKED"]>>
           /\ blockVerdict.recommendation = base.recommendation
           /\ blockVerdict.message = base.message
           /\ blockVerdict.advice = base.advice
           /\ IF t > 0
              THEN /\ info.hours_since_block = (Now - t) \div 3600
                   /\ info.expected_auto_unblock_at = ((t + 48 * 3600) \div 60) * 60
                   /\ info.block_date = (t \div 60) * 60
              ELSE /\ info.hours_since_block = None
                   /\ info.expected_auto_unblock_at = None
                   /\ info.block_date = None

\* An Unblocked record that still carries a block timestamp of 10 hours ago
\* and a block reason: not blocked, and the timeline information reports the
\* 10 hours.
C13_Witness ==
    /\ "recommendation" \in DOMAIN blockVerdict
    /\ blockVerdict.block.status = "U"
    /\ blockFile.rows[1].block_status_date = Now - 36000
    /\ blockVerdict.block.block_through = "S"
    /\ blockVerdict.recommendation = "none"
    /\ blockVerdict.timeline_info.hours_since_block = 10

\* C14 as stated: for a matched record whose status is Manual, Permanent or
\* any code outside {U, A, M, P}, a blank one included, the recommendation is
\* "complaint" whatever the block timestamp and reason; a Manual block
\* carries no advice to wait, and an unrecognized code is never reported as
\* not blocked.
C14_OtherStatusesEscalate ==
    ("recommendation" \in DOMAIN blockVerdict
        /\ StripUpper(blockFile.rows[1].block_status) \notin {"U", "A"})
    => LET types == {blockVerdict.advice[k].type : k \in 1..Len(blockVerdict.advice)}
       IN  /\ blockVerdict.recommendation = "complaint"
           /\ "NOT_BLOCKED" \notin types
           /\ "WAIT_UNTIL_48_HOURS" \notin types

\* C14, amended: for a matched record whose status is Manual, Permanent or
\* any non-blank code outside {U, A, M, P}, the recommendation is "complaint"
\* with the next action create_complaint_tool, whatever the block timestamp
\* and reason; a Manual block carries no advice to wait; a non-blank
\* unrecognized code gets the "unknown status" verdict and is never reported
\* as not blocked.  A blank status is treated as Unblocked: recommendation
\* "none" with advice [NOT_BLOCKED].
C14_NonBlankOtherStatusesEscalate ==
    ("recommendation" \in DOMAIN blockVerdict
        /\ StripUpper(blockFile.rows[1].block_status) \notin {"U", "A"})
    => LET st == StripUpper(blockFile.rows[1].block_status)
           types == {blockVerdict.advice[k].type : k \in 1..Len(blockVerdict.advice)}
       IN  IF st = ""
           THEN /\ blockVerdict.recommendation = "none"
                /\ blockVerdict.advice = <<[type |-> "NOT_BLOCKED"]>>
           ELSE /\ blockVerdict.recommendation = "complaint"
                /\ Len(blockVerdict.advice) = 1
                /\ blockVerdict.advice[1].next_action = "create_complaint_tool"
                /\ blockVerdict.advice[1].type
                      = (IF st = "M" THEN "RAISE_COMPLAINT_MANUAL_BLOCK"
                         ELSE IF st = "P" THEN "RAISE_COMPLAINT_PERMANENT_BLOCK"
                         ELSE "UNKNOWN_BLOCK_STATUS")
                /\ st = "M" => blockVerdict.message.text = "manual_block_tsm_decides"
                /\ st \notin {"M", "P"}
                      => blockVerdict.message.text = "unknown_block_status"

\* A Manual block of 10 hours ago with reason SuspiciousScan: complaint, no
\* advice to wait.
C14_Witness ==
    /\ "recommendation" \in DOMAIN blockVerdict
    /\ blockVerdict.block.status = "M"
    /\ blockFile.rows[1].block_status_date = Now - 36000
    /\ blockVerdict.block.block_through = "S"
    /\ blockVerdict.recommendation = "complaint"
    /\ blockVerdict.advice[1].type = "RAISE_COMPLAINT_MANUAL_BLOCK"

\* C15: for a matched record with status Automatic whose block timestamp
\* parses and lies less than 48 hours back, the first advice item is
\* WAIT_UNTIL_48_HOURS with the expected unblock time block time + 48 hours
\* (to the minute); reason S adds GUIDE_SCAN_PRACTICES and nothing else,
\* reason O adds GUIDE_OTP_PRACTICES and nothing else, any other reason adds
\* nothing.
C15_AutomaticWaitAdvice ==
    ("recommendation" \in DOMAIN blockVerdict
        /\ blockVerdict.block.status = "A"
        /\ blockFile.rows[1].block_status_date > 0
        /\ Now - blockFile.rows[1].block_status_date < 48 * 3600)
    => LET t == blockFile.rows[1].block_status_date
           reason == StripUpper(blockFile.rows[1].block_through)
           advice == blockVerdict.advice
       IN  /\ blockVerdict.recommendation = "wait"
           /\ advice[1].type = "WAIT_UNTIL_48_HOURS"
           /\ advice[1].expected_unblock_at = ((t + 48 * 3600) \div 60) * 60
           /\ advice[1].expected_unblock_date = ((t + 48 * 3600) \div 86400) * 86400
           /\ blockVerdict.message.unblock_by = advice[1].expected_unblock_at
           /\ SubSeq(advice, 2, Len(advice))
                 = (IF reason = "S" THEN <<[type |-> "GUIDE_SCAN_PRACTICES"]>>
                    ELSE IF reason = "O" THEN <<[type |-> "GUIDE_OTP_PRACTICES"]>>
                    ELSE <<>>)

\* An Automatic block of 10 hours ago with reason SuspiciousScan (written in
\* lower case): wait, with the scan-practice guidance.
C15_Witness ==
    /\ "recommendation" \in DOMAIN blockVerdict
    /\ blockVerdict.block.status = "A"
    /\ blockFile.rows[1].block_status_date = Now - 36000
    /\ blockFile.rows[1].block_through = "s"
    /\ blockVerdict.recommendation = "wait"
    /\ Len(blockVerdict.advice) = 2
    /\ blockVerdict.advice[2].type = "GUIDE_SCAN_PRACTICES"

\* ------------------------------------------------------------------------
\* KYC timeline evaluator (tools/kyc_status_checker.py)
\* ------------------------------------------------------------------------

KycTimelineDays == 30

\* cell.lower() == 'true'
IsTrueCell(cell) == cell = "true" \/ cell = "TRUE"

Max(a, b) == IF a >= b THEN a ELSE b

\* The test `days_since_kyc <= 30` of the Complete branch.
WithinKycTimelineOff(days) == days < KycTimelineDays

WithinKycTimeline(days) == days <= KycTimelineDays

\* missing_docs of the Partial branch, in the order of the four tests.
MissingDocsOff(aadhar, pan, bank, upi) ==
    (IF ~pan THEN <<"PAN">> ELSE <<>>)
    \o (IF ~aadhar THEN <<"Aadhar">> ELSE <<>>)
    \o (IF ~bank THEN <<"Bank Details">> ELSE <<>>)
    \o (IF ~upi THEN <<"UPI">> ELSE <<>>)

MissingDocs(aadhar, pan, bank, upi) ==
    (IF ~aadhar THEN <<"Aadhar">> ELSE <<>>)
    \o (IF ~pan THEN <<"PAN">> ELSE <<>>)
    \o (IF ~bank THEN <<"Bank Details">> ELSE <<>>)
    \o (IF ~upi THEN <<"UPI">> ELSE <<>>)

KycDecision(kyc_status, days, aadhar, pan, bank, upi) ==
    IF kyc_status = "F" THEN
        IF WithinKycTimeline(days) THEN
            [recommendation |-> "within_timeline",
             message |-> [text |-> "kyc_done_wait_days",
                          days_remaining |-> Max(0, KycTimelineDays - days)]]
        ELSE
            [recommendation |-> "timeline_exceeded",
             message |-> [text |-> "kyc_30_days_passed_contact_tsm_or_raise_complaint"]]
    ELSE IF kyc_status = "P" THEN
        [recommendation |-> "partial_kyc",
         message |-> [text |-> "kyc_not_complete_please_complete",
                      missing_docs |-> MissingDocs(aadhar, pan, bank, upi)]]
    ELSE IF kyc_status = "R" THEN
        [recommendation |-> "kyc_rejected",
         message |-> [text |-> "kyc_rejected_submit_again"]]
    ELSE IF kyc_status = "N" THEN
        [recommendation |-> "kyc_not_started",
         message |-> [text |-> "kyc_not_started_complete_process"]]
    ELSE
        [recommendation |-> "unknown_status",
         message |-> [text |-> "kyc_status_unclear"]]

\* The rows the test `row.get('opus_id', '') == opus_id` accepts.
KycMatchOff(rows, opus_id) == 1..Len(rows)

KycMatch(rows, opus_id) == {i \in 1..Len(rows) : rows[i].opus_id = opus_id}

kyc_status_checker_tool(file, opus_id) ==
    IF ~file.exists THEN
        [success |-> FALSE, error |-> "data_file_not_found"]
    ELSE IF KycMatch(file.rows, opus_id) = {} THEN
        [success |-> FALSE, error |-> "no_customer_found"]
    ELSE
        LET row == file.rows[MinOf(KycMatch(file.rows, opus_id))]
            aadhar == IsTrueCell(row.is_aadhar_added)
            pan == IsTrueCell(row.is_pan_added)
            bank == IsTrueCell(row.is_bank_added)
            upi == IsTrueCell(row.is_upi_added)
        IN  IF row.data_created \in {Blank, Junk} THEN
                \* int() raises; the handler turns it into an error result
                [success |-> FALSE, error |-> "exception"]
            ELSE
                LET days == row.data_created
                    d == KycDecision(row.kyc_status, days, aadhar, pan, bank, upi)
                IN  [success |-> TRUE,
                     opus_id |-> opus_id,
                     kyc_status |-> row.kyc_status,
                     documents_status |-> [aadhar |-> aadhar, pan |-> pan,
                                           bank |-> bank, upi |-> upi],
                     timeline_info |->
                         [days_since_registration |-> days,
                          days_remaining_for_approval |->
                              IF row.kyc_status = "F"
                              THEN Max(0, KycTimelineDays - days) ELSE None,
                          timeline_exceeded |->
                              days > KycTimelineDays /\ row.kyc_status = "F"],
                     recommendation |-> d.recommendation,
                     message |-> d.message]

KycStatusCells == {"F", "P", "R", "N", "X", ""}

KycFlagCells == {"true", "TRUE", "false"}

KycAgeCells == {Blank, Junk, 0, 1, 29, 30, 31, 45}

KycRows ==
    [opus_id : {"1"},
     kyc_status : KycStatusCells,
     is_aadhar_added : KycFlagCells,
     is_pan_added : KycFlagCells,
     is_bank_added : KycFlagCells,
     is_upi_added : KycFlagCells,
     data_created : KycAgeCells]

KycQueries == {"1", "2"}

OthersIdleForKyc ==
    /\ blockFile = EmptyFile /\ blockVerdict = NoVerdict
    /\ transferFile = EmptyFile /\ pointFile = EmptyFile
    /\ balanceResult = NoVerdict /\ redeemVerdict = NoVerdict
    /\ scanFile = EmptyFile /\ refFile = EmptyFile /\ scanVerdict = NoVerdict

InitKyc ==
    /\ \/ kycFile = [exists |-> FALSE, rows |-> <<>>]
       \/ \E r \in KycRows : kycFile = [exists |-> TRUE, rows |-> <<r>>]
    /\ kycVerdict = NoVerdict
    /\ call = <<>>
    /\ StoreIdle
    /\ OthersIdleForKyc

KycStatusChecker ==
    /\ \E o \in KycQueries :
          /\ kycVerdict' = kyc_status_checker_tool(kycFile, o)
          /\ call' = <<[opus_id |-> o]>>
    /\ UNCHANGED <<kycFile, blockVars, redeemVars, scanVars, storeVars>>

NextKyc == KycStatusChecker

SpecKyc == InitKyc /\ [][NextKyc]_vars

\* C2: for a customer record with KYC status Complete and age A in whole
\* days, the recommendation is "within_timeline" (no escalation) exactly when
\* A <= 30 and "timeline_exceeded" (raise a complaint) exactly when A > 30;
\* within the timeline the message states 30 - A days remaining.
C2_KycComplete30Days ==
    (kycVerdict.success /\ kycVerdict.kyc_status = "F")
    => LET A == kycFile.rows[1].data_created IN
       /\ (kycVerdict.recommendation = "within_timeline") <=> (A <= 30)
       /\ (kycVerdict.recommendation = "timeline_exceeded") <=> (A > 30)
       /\ A <= 30 => /\ kycVerdict.message.text = "kyc_done_wait_days"
                     /\ kycVerdict.message.days_remaining = 30 - A
       /\ A > 30 => kycVerdict.message.text
                        = "kyc_30_days_passed_contact_tsm_or_raise_complaint"

\* A Complete record of exactly 30 days, evaluated as within the timeline
\* with 0 days remaining.
C2_Witness ==
    /\ kycVerdict.success
    /\ kycVerdict.kyc_status = "F"
    /\ kycFile.rows[1].data_created = 30
    /\ kycVerdict.recommendation = "within_timeline"
    /\ kycVerdict.message.days_remaining = 0

\* The customer record the last KYC call has matched, if any.
KycFound ==
    /\ kycVerdict # NoVerdict
    /\ kycFile.exists
    /\ kycFile.rows # <<>>
    /\ kycVerdict.success \/ kycVerdict.error = "exception"

\* C16: for every customer record found, whatever its status code, document
\* flags and age cell, the KYC evaluator returns a verdict and not an error
\* result; a status code other than F, P, R, N gets the recommendation to
\* create a complaint with an "unknown status" message.
C16_FoundRecordAlwaysGetsVerdict ==
    KycFound
    => /\ kycVerdict.success
       /\ kycFile.rows[1].kyc_status \notin {"F", "P", "R", "N"}
          => /\ kycVerdict.recommendation \in {"create_complaint", "complaint"}
             /\ kycVerdict.message.text = "kyc_status_unclear"

\* A found Partial record whose age cell is empty: the call ends in the
\* error result of the exception handler.
C16_Witness ==
    /\ KycFound
    /\ kycFile.rows[1].kyc_status = "P"
    /\ kycFile.rows[1].data_created = Blank
    /\ ~kycVerdict.success
    /\ kycVerdict.error = "exception"

\* C17: for every record with status Partial the missing-documents list of
\* the message holds exactly the documents whose flag is not true, in the
\* order Aadhar, PAN, Bank Details, UPI, and no document whose flag is true;
\* the recommendation is "partial_kyc", neither a complaint nor an enquiry.
C17_PartialListsMissingDocuments ==
    (kycVerdict # NoVerdict /\ kycVerdict.success /\ kycVerdict.kyc_status = "P")
    => LET row == kycFile.rows[1]
           docs == kycVerdict.message.missing_docs
           order == <<"Aadhar", "PAN", "Bank Details", "UPI">>
           flag == <<IsTrueCell(row.is_aadhar_added), IsTrueCell(row.is_pan_added),
                     IsTrueCell(row.is_bank_added), IsTrueCell(row.is_upi_added)>>
           Pos(doc) == CHOOSE k \in 1..4 : order[k] = doc
       IN  /\ kycVerdict.recommendation = "partial_kyc"
           /\ kycVerdict.message.text = "kyc_not_complete_please_complete"
           /\ \A k \in 1..4 :
                  (\E i \in 1..Len(docs) : docs[i] = order[k]) <=> ~flag[k]
           /\ \A i \in 1..Len(docs) : docs[i] \in {order[k] : k \in 1..4}
           /\ \A i, j \in 1..Len(docs) : i < j => Pos(docs[i]) < Pos(docs[j])
           /\ kycVerdict.documents_status
                  = [aadhar |-> flag[1], pan |-> flag[2],
                     bank |-> flag[3], upi |-> flag[4]]

\* A Partial record with Aadhar and Bank Details present ("TRUE" in capitals
\* counts as present) and PAN and UPI missing.
C17_Witness ==
    /\ kycVerdict # NoVerdict
    /\ kycVerdict.success
    /\ kycVerdict.kyc_status = "P"
    /\ kycFile.rows[1].is_aadhar_added = "TRUE"
    /\ kycFile.rows[1].is_pan_added = "false"
    /\ kycFile.rows[1].is_bank_added = "true"
    /\ kycFile.rows[1].is_upi_added = "false"
    /\ kycVerdict.message.missing_docs = <<"PAN", "UPI">>

\* ------------------------------------------------------------------------
\* Redemption eligibility evaluator (tools/cash_transfer_tool.py)
\* ------------------------------------------------------------------------

FirstRedemptionMinPoints == 5000

RepeatRedemptionMinPoints == 500

DefaultLimit == 3

\* datetime.min, below every parsed timestamp.
DtMin == 0

\* _normalize_opus_pc_id on the identifier texts of the model: a text that
\* starts with PC- in any letter case is returned as it is, digits are
\* zero-padded to six and prefixed, "" stands for None.
_normalize_opus_pc_id(raw) ==
    CASE raw = "1" -> "PC-000001"
      [] raw = "2" -> "PC-000002"
      [] OTHER -> raw

\* _parse_dt: None for an empty or unparseable cell.
_parse_dt(value) == IF value > 0 THEN value ELSE None

\* _safe_int / to_int / _to_int: 0 for an empty or non-numeric cell.
_safe_int(value) == IF value \in {None, Blank, Junk} THEN 0 ELSE value

\* Positions 1..n in the order of a stable sort: before[i, j] says that
\* element i sorts strictly before element j; elements that compare equal
\* keep their original order (list.sort and sorted are stable, also with
\* reverse=True).
StableOrder(n, before) ==
    [p \in 1..n |->
        CHOOSE i \in 1..n :
            Cardinality({j \in 1..n :
                \/ before[j, i]
                \/ (~before[i, j] /\ ~before[j, i] /\ j < i)}) + 1 = p]

\* The rows of s in the order given by a sequence of positions.
Permute(s, order) == [p \in 1..Len(order) |-> s[order[p]]]

\* s[:n]
Take(s, n) == IF Len(s) <= n THEN s ELSE SubSeq(s, 1, n)

\* The key of the balance sort: _parse_dt(created_at) or datetime.min.
PointCreatedKey(row) == OrElse(_parse_dt(row.created_at), DtMin)

\* rows.sort(key=..., reverse=True): a sorts before b.
PointRowNewerOff(a, b) == PointCreatedKey(a) < PointCreatedKey(b)

PointRowNewer(a, b) == PointCreatedKey(a) > PointCreatedKey(b)

\* Whether a history row carries a balance snapshot: (balance or "").strip() != "".
HasSnapshot(row) == row.balance # Blank

\* Credits minus debits over the rows.
RECURSIVE ComputedSum(_)
ComputedSum(rows) ==
    IF rows = <<>> THEN 0
    ELSE LET r == Head(rows)
             points == _safe_int(r.point_cr_db)
         IN  (IF r.method = "C" THEN points
              ELSE IF r.method = "D" THEN 0 - points
              ELSE 0) + ComputedSum(Tail(rows))

NoBalance == [balance |-> None, source |-> "None", as_of |-> None]

_compute_point_balance(file, opus_pc_id) ==
    IF ~file.exists THEN NoBalance
    ELSE
        LET own == SelectSeq(file.rows, LAMBDA r : r.opus_pc_id = opus_pc_id) IN
        IF own = <<>> THEN NoBalance
        ELSE
            LET before == [i \in 1..Len(own), j \in 1..Len(own) |->
                              PointRowNewer(own[i], own[j])]
                rows == Permute(own, StableOrder(Len(own), before))
                withSnap == {p \in 1..Len(rows) : HasSnapshot(rows[p])}
            IN  IF withSnap # {} THEN
                    LET r == rows[MinOf(withSnap)] IN
                    [balance |-> _safe_int(r.balance),
                     source |-> "balance_field",
                     as_of |-> r.created_at]
                ELSE
                    [balance |-> ComputedSum(rows),
                     source |-> "computed",
                     as_of |-> rows[1].created_at]

\* Bound on the rows of the point history file.
MaxPointRows == 2

PointBalanceCells == {Blank, Junk, 100, 200}

PointCreatedCells == {Junk, 1, 2}

PointRows ==
    [opus_pc_id : {"PC-000001"},
     balance : PointBalanceCells,
     created_at : PointCreatedCells,
     method : {"C", "D"},
     point_cr_db : {10, 30}]
    \cup
    [opus_pc_id : {"PC-000002"}, balance : {300}, created_at : {2},
     method : {"C"}, point_cr_db : {70}]

SeqsUpTo(S, n) == UNION {[1..k -> S] : k \in 0..n}

OthersIdleForRedeem ==
    /\ blockFile = EmptyFile /\ blockVerdict = NoVerdict
    /\ kycFile = EmptyFile /\ kycVerdict = NoVerdict
    /\ scanFile = EmptyFile /\ refFile = EmptyFile /\ scanVerdict = NoVerdict

InitBalance ==
    /\ \/ pointFile = [exists |-> FALSE, rows |-> <<>>]
       \/ \E rows \in SeqsUpTo(PointRows, MaxPointRows) :
             pointFile = [exists |-> TRUE, rows |-> rows]
    /\ transferFile = EmptyFile
    /\ balanceResult = NoVerdict
    /\ redeemVerdict = NoVerdict
    /\ call = <<>>
    /\ StoreIdle
    /\ OthersIdleForRedeem

ComputePointBalance ==
    /\ \E id \in {"PC-000001", "PC-000002"} :
          /\ balanceResult' = [query |-> id, success |-> TRUE]
                               @@ _compute_point_balance(pointFile, id)
          /\ call' = <<[opus_pc_id |-> id]>>
    /\ UNCHANGED <<pointFile, transferFile, redeemVerdict, blockVars, kycVars, scanVars, storeVars>>

NextBalance == ComputePointBalance

SpecBalance == InitBalance /\ [][NextBalance]_vars

\* C4: the balance computation prefers an explicit snapshot over the computed
\* sum: when a most recent entry (by creation time) of the identifier carries a
\* balance snapshot the returned balance is that snapshot, read from the
\* balance field; the credit-minus-debit sum is returned exactly when the
\* identifier has entries and none of them carries a snapshot.
C4_SnapshotPreferred ==
    balanceResult.success
    => LET v == balanceResult
           own == SelectSeq(pointFile.rows, LAMBDA r : r.opus_pc_id = v.query)
           n == Len(own)
           recentSnap == {i \in 1..n :
                            /\ HasSnapshot(own[i])
                            /\ \A j \in 1..n :
                                  PointCreatedKey(own[j]) <= PointCreatedKey(own[i])}
       IN  /\ recentSnap # {}
              => /\ v.source = "balance_field"
                 /\ v.balance = _safe_int(own[MinOf(recentSnap)].balance)
                 /\ v.as_of = own[MinOf(recentSnap)].created_at
           /\ (v.source = "computed")
              <=> (n > 0 /\ \A i \in 1..n : ~HasSnapshot(own[i]))
           /\ v.source = "computed" => v.balance = ComputedSum(own)
           /\ v.source = "balance_field"
              => \E i \in 1..n : /\ HasSnapshot(own[i])
                                 /\ v.balance = _safe_int(own[i].balance)

\* An older entry with snapshot 100 precedes, in the file, the most recent
\* entry with snapshot 200: the result is 200 from the balance field, not the
\* sum of the credits.
C4_Witness ==
    /\ balanceResult.success
    /\ balanceResult.query = "PC-000001"
    /\ Len(pointFile.rows) = 2
    /\ pointFile.rows[1].opus_pc_id = "PC-000001"
    /\ pointFile.rows[2].opus_pc_id = "PC-000001"
    /\ pointFile.rows[1].created_at = 1 /\ pointFile.rows[1].balance = 100
    /\ pointFile.rows[2].created_at = 2 /\ pointFile.rows[2].balance = 200
    /\ balanceResult.source = "balance_field"
    /\ balanceResult.balance = 200
    /\ ComputedSum(pointFile.rows) # 200

\* The transfer sort key: (updated_at or created_at, created_at, id).
TransferSortKey(row) ==
    [first |-> OrElse(_parse_dt(row.updated_at), _parse_dt(row.created_at)),
     second |-> _parse_dt(row.created_at),
     id |-> _safe_int(row.id)]

\* Comparing two key tuples raises TypeError when the first components that
\* differ are None on one side and a datetime on the other.
TransferKeysIncomparable(a, b) ==
    \/ (a.first = None) # (b.first = None)
    \/ (a.first = b.first /\ (a.second = None) # (b.second = None))

\* Tuple order on keys that are comparable.
TransferKeyGreaterOff(a, b) ==
    \/ a.first < b.first
    \/ (a.first = b.first /\ a.second < b.second)
    \/ (a.first = b.first /\ a.second = b.second /\ a.id < b.id)

TransferKeyGreater(a, b) ==
    \/ a.first > b.first
    \/ (a.first = b.first /\ a.second > b.second)
    \/ (a.first = b.first /\ a.second = b.second /\ a.id > b.id)

\* rows.sort(key=_sort_key, reverse=True) raises: a comparison sort compares
\* every two keys that end up adjacent, so it raises exactly when some two
\* keys of the list are incomparable.
TransferSortRaises(rows) ==
    \E i, j \in 1..Len(rows) :
        TransferKeysIncomparable(TransferSortKey(rows[i]), TransferSortKey(rows[j]))

\* (status or "").strip().upper() on the status texts of the model.
TransferStatus(row) == IF row.status = " y " THEN "Y" ELSE row.status

STATUS_LABELS(code) ==
    CASE code = "P" -> "Pending"
      [] code = "Y" -> "Success"
      [] code = "N" -> "Failed"
      [] code = "R" -> "Rejected"
      [] OTHER -> "Unknown"

\* lim = max(1, int(limit)) if limit else 3
EffectiveLimit(limit) == IF limit # 0 THEN Max(1, limit) ELSE DefaultLimit

\* The rows the first-time test looks at: the whole ledger of the identifier.
FirstTimeScopeOff(rows, limited_rows) == limited_rows

FirstTimeScope(rows, limited_rows) == rows

\* meets_min_requirement
MeetsMinimumOff(current_balance, required_min_points) ==
    current_balance > required_min_points

MeetsMinimum(current_balance, required_min_points) ==
    current_balance >= required_min_points

NonAcceptedStatusesOff == {"N", "R"}

NonAcceptedStatuses == {"P", "N", "R"}

\* The next_action literal of the eligibility advice item.
EligibilityNextActionOff(meets_min_requirement) ==
    "create_enquiry_for_minimum_points_guidance"

EligibilityNextAction(meets_min_requirement) ==
    IF meets_min_requirement THEN "proceed_with_redemption_checks"
    ELSE "create_enquiry_for_minimum_points_guidance"

get_cash_transfer_history(file, points, opus_pc_id, limit) ==
    IF ~file.exists THEN
        [success |-> FALSE, error |-> "data_file_not_found"]
    ELSE IF _normalize_opus_pc_id(opus_pc_id) = "" THEN
        [success |-> FALSE, error |-> "opus_pc_id_is_required"]
    ELSE
        LET target_norm == _normalize_opus_pc_id(opus_pc_id)
            own == SelectSeq(file.rows, LAMBDA r : r.opus_pc_id = target_norm)
        IN
        IF TransferSortRaises(own) THEN
            [success |-> FALSE, error |-> "exception"]
        ELSE
            LET before == [i \in 1..Len(own), j \in 1..Len(own) |->
                              TransferKeyGreater(TransferSortKey(own[i]),
                                                 TransferSortKey(own[j]))]
                rows == Permute(own, StableOrder(Len(own), before))
                lim == EffectiveLimit(limit)
                limited_rows == Take(rows, lim)
                point_balance_info == _compute_point_balance(points, target_norm)
                any_success_rows ==
                    SelectSeq(FirstTimeScope(rows, limited_rows),
                              LAMBDA r : TransferStatus(r) = "Y")
                is_first_redemption == Len(any_success_rows) = 0
                required_min_points == IF is_first_redemption
                                       THEN FirstRedemptionMinPoints
                                       ELSE RepeatRedemptionMinPoints
                current_balance == IF point_balance_info.balance = None THEN 0
                                   ELSE point_balance_info.balance
                meets_min_requirement == MeetsMinimum(current_balance, required_min_points)
                missing_points == IF current_balance < required_min_points
                                  THEN required_min_points - current_balance
                                  ELSE 0
                nonAccepted == {p \in 1..Len(rows) :
                                   TransferStatus(rows[p]) \in NonAcceptedStatuses}
                latest_non_accepted ==
                    IF meets_min_requirement /\ nonAccepted # {}
                    THEN LET r == rows[MinOf(nonAccepted)] IN
                         <<[id |-> r.id,
                            status |-> TransferStatus(r),
                            status_label |-> STATUS_LABELS(TransferStatus(r)),
                            reason_message |-> r.reason_message,
                            created_at |-> r.created_at,
                            updated_at |-> r.updated_at]>>
                    ELSE <<>>
                eligibility_advice ==
                    IF ~meets_min_requirement THEN
                        [type |-> "INSUFFICIENT_POINTS",
                         first_time |-> is_first_redemption,
                         required_min_points |-> required_min_points,
                         current_balance |-> current_balance,
                         missing_points |-> missing_points,
                         next_action |-> EligibilityNextAction(FALSE)]
                    ELSE
                        [type |-> "POINTS_SUFFICIENT",
                         first_time |-> is_first_redemption,
                         required_min_points |-> required_min_points,
                         current_balance |-> current_balance,
                         next_action |-> EligibilityNextAction(TRUE)]
                not_accepted_advice ==
                    IF latest_non_accepted = <<>> THEN <<>>
                    ELSE <<[type |-> "PAYMENT_NOT_ACCEPTED",
                            status |-> latest_non_accepted[1].status,
                            status_label |-> latest_non_accepted[1].status_label,
                            reason_message |-> latest_non_accepted[1].reason_message,
                            created_at |-> latest_non_accepted[1].created_at]>>
            IN  [success |-> TRUE,
                 opus_pc_id |-> target_norm,
                 limit |-> limit,
                 entries |-> limited_rows,
                 summary |-> [total_records |-> Len(limited_rows)],
                 message |->
                     IF limited_rows = <<>>
                     THEN [head |-> "no_prior_cash_transfers_found"]
                     ELSE [head |-> "latest_transfer",
                           status_label |->
                               STATUS_LABELS(TransferStatus(limited_rows[1])),
                           created_at |-> limited_rows[1].created_at],
                 point_balance |-> point_balance_info.balance,
                 point_balance_meta |-> [source |-> point_balance_info.source,
                                         as_of |-> point_balance_info.as_of],
                 redemption_eligibility |->
                     [is_first_redemption |-> is_first_redemption,
                      required_min_points |-> required_min_points,
                      current_balance |-> current_balance,
                      meets_min_requirement |-> meets_min_requirement,
                      missing_points |-> missing_points,
                      successful_transfer_count |-> Len(any_success_rows)],
                 advice |-> <<eligibility_advice>> \o not_accepted_advice,
                 latest_non_accepted_transfer |-> latest_non_accepted]

\* Bound on the rows of the transfer ledger file.
MaxTransferRows == 2

TransferShapes ==
    [opus_pc_id : {"PC-000001"},
     status : {"Y", "P", "N"},
     created_at : {Junk, 1, 2},
     updated_at : {Blank, 3},
     reason_message : {"Bank declined"}]
    \cup
    [opus_pc_id : {"PC-000001"}, status : {" y "}, created_at : {1},
     updated_at : {Blank}, reason_message : {""}]
    \cup
    [opus_pc_id : {"PC-000002"}, status : {"Y"}, created_at : {1},
     updated_at : {Blank}, reason_message : {""}]

\* The id column numbers the rows of the file.
WithIds(shapes) == [i \in 1..Len(shapes) |-> shapes[i] @@ [id |-> i]]

\* Point history files of the redemption runs: no file, one snapshot around
\* the two thresholds, or one credit of 5000 without a snapshot.
RedeemBalanceCells == {Blank, 499, 500, 600, 4000, 4999}

RedeemPointFiles ==
    {[exists |-> FALSE, rows |-> <<>>]}
    \cup
    {[exists |-> TRUE,
      rows |-> <<[opus_pc_id |-> "PC-000001", balance |-> b, created_at |-> 1,
                  method |-> "C", point_cr_db |-> 5000]>>] :
        b \in RedeemBalanceCells}

RedeemIdQueries == {"", "1"}

RedeemLimits == 0..MaxTransferRows

InitRedeem ==
    /\ \/ transferFile = [exists |-> FALSE, rows |-> <<>>]
       \/ \E shapes \in SeqsUpTo(TransferShapes, MaxTransferRows) :
             transferFile = [exists |-> TRUE, rows |-> WithIds(shapes)]
    /\ pointFile \in RedeemPointFiles
    /\ balanceResult = NoVerdict
    /\ redeemVerdict = NoVerdict
    /\ call = <<>>
    /\ StoreIdle
    /\ OthersIdleForRedeem

\* One call of the evaluator.  The evaluator keeps nothing between calls and
\* leaves the files alone, so a run holds one call.
GetCashTransferHistory ==
    /\ redeemVerdict = NoVerdict
    /\ \E id \in RedeemIdQueries, limit \in RedeemLimits :
          /\ redeemVerdict' = get_cash_transfer_history(transferFile, pointFile,
                                                        id, limit)
          /\ call' = <<[opus_pc_id |-> id, limit |-> limit]>>
    /\ UNCHANGED <<pointFile, transferFile, balanceResult, blockVars, kycVars, scanVars, storeVars>>

NextRedeem == GetCashTransferHistory

SpecRedeem == InitRedeem /\ [][NextRedeem]_vars

\* C3: in every verdict the required minimum is 5000 points for a first-time
\* customer and 500 otherwise; the customer is eligible exactly when the
\* balance is at least the required minimum; when ineligible the missing
\* points are the required minimum minus the balance, and when eligible 0.
C3_MinimumAndShortfall ==
    redeemVerdict.success
    => LET e == redeemVerdict.redemption_eligibility
           snapshot == redeemVerdict.point_balance
       IN  /\ e.current_balance = (IF snapshot = None THEN 0 ELSE snapshot)
           /\ e.required_min_points = (IF e.is_first_redemption THEN 5000 ELSE 500)
           /\ e.meets_min_requirement <=> (e.current_balance >= e.required_min_points)
           /\ ~e.meets_min_requirement
              => e.missing_points = e.required_min_points - e.current_balance
           /\ e.meets_min_requirement => e.missing_points = 0
           /\ redeemVerdict.advice[1].type
                  = (IF e.meets_min_requirement THEN "POINTS_SUFFICIENT"
                     ELSE "INSUFFICIENT_POINTS")

\* A first-time customer with balance 4000: ineligible, 1000 points missing
\* of the 5000 required.
C3_Witness ==
    /\ redeemVerdict.success
    /\ redeemVerdict.redemption_eligibility.is_first_redemption
    /\ redeemVerdict.redemption_eligibility.current_balance = 4000
    /\ ~redeemVerdict.redemption_eligibility.meets_min_requirement
    /\ redeemVerdict.redemption_eligibility.missing_points = 1000
    /\ redeemVerdict.redemption_eligibility.required_min_points = 5000

\* C5: first-time versus repeat is decided over the whole transfer ledger of
\* the identifier, whatever the lookback: is_first_redemption is true exactly
\* when no entry of the identifier in the ledger file has status Success.
C5_FirstTimeOverWholeLedger ==
    redeemVerdict.success
    => (redeemVerdict.redemption_eligibility.is_first_redemption
        <=> ~\E i \in 1..Len(transferFile.rows) :
                /\ transferFile.rows[i].opus_pc_id = redeemVerdict.opus_pc_id
                /\ TransferStatus(transferFile.rows[i]) = "Y")

\* With lookback 1 the only Success entry of the identifier lies outside the
\* returned entries, and the customer still counts as a repeat customer.
C5_Witness ==
    /\ redeemVerdict.success
    /\ redeemVerdict.limit = 1
    /\ Len(redeemVerdict.entries) = 1
    /\ TransferStatus(redeemVerdict.entries[1]) # "Y"
    /\ \E i \in 1..Len(transferFile.rows) :
          /\ transferFile.rows[i].opus_pc_id = redeemVerdict.opus_pc_id
          /\ TransferStatus(transferFile.rows[i]) = "Y"
    /\ ~redeemVerdict.redemption_eligibility.is_first_redemption
    /\ redeemVerdict.redemption_eligibility.required_min_points = 500

CreateEnquiryActions ==
    {"create_enquiry_tool", "create_enquiry_for_minimum_points_guidance"}

CreateComplaintActions ==
    {"create_complaint_tool", "call_create_complaint_tool"}

\* C20 as stated: for every ledger and balance no advice item of the
\* redemption verdict names a create-enquiry or create-complaint next action.
C20_NeverNamesEnquiryOrComplaint ==
    redeemVerdict.success
    => \A k \in 1..Len(redeemVerdict.advice) :
          "next_action" \in DOMAIN redeemVerdict.advice[k]
          => redeemVerdict.advice[k].next_action
                 \notin (CreateEnquiryActions \cup CreateComplaintActions)

\* C20: no advice item of the redemption verdict names a create-complaint
\* next action, and an eligible verdict names no create-enquiry next action
\* either (its eligibility item says "proceed_with_redemption_checks"); an
\* ineligible verdict has the single advice item INSUFFICIENT_POINTS whose
\* next action is "create_enquiry_for_minimum_points_guidance"; the item
\* about a transfer that was not accepted carries no next action.
C20_EnquiryNamedOnlyWhenIneligible ==
    redeemVerdict.success
    => LET advice == redeemVerdict.advice
           e == redeemVerdict.redemption_eligibility
       IN  /\ \A k \in 1..Len(advice) :
                  "next_action" \in DOMAIN advice[k]
                  => advice[k].next_action \notin CreateComplaintActions
           /\ ~e.meets_min_requirement
              => /\ Len(advice) = 1
                 /\ advice[1].type = "INSUFFICIENT_POINTS"
                 /\ advice[1].next_action
                        = "create_enquiry_for_minimum_points_guidance"
           /\ e.meets_min_requirement
              => /\ advice[1].type = "POINTS_SUFFICIENT"
                 /\ advice[1].next_action = "proceed_with_redemption_checks"
                 /\ \A k \in 2..Len(advice) :
                        /\ advice[k].type = "PAYMENT_NOT_ACCEPTED"
                        /\ "next_action" \notin DOMAIN advice[k]

\* An eligible repeat customer (balance 600, one successful transfer) whose
\* latest transfer is pending: two advice items, none naming an enquiry.
C20_Witness ==
    /\ redeemVerdict.success
    /\ redeemVerdict.redemption_eligibility.meets_min_requirement
    /\ ~redeemVerdict.redemption_eligibility.is_first_redemption
    /\ redeemVerdict.point_balance = 600
    /\ Len(redeemVerdict.advice) = 2
    /\ redeemVerdict.advice[2].status = "P"

\* C21: when the customer is eligible and the ledger of the identifier holds
\* an entry with status P, N or R, the verdict surfaces exactly the most
\* recent such entry of the whole ledger (also when it lies outside the
\* returned last-N entries) with its status, reason message and times, and
\* the advice list holds one PAYMENT_NOT_ACCEPTED item with the same status,
\* reason message and creation time; when the customer is ineligible or no
\* such entry exists, no entry is surfaced and no such item is present.
C21_LatestNonAcceptedSurfaced ==
    redeemVerdict.success
    => LET v == redeemVerdict
           own == SelectSeq(transferFile.rows,
                            LAMBDA r : r.opus_pc_id = v.opus_pc_id)
           Seen(r) == IF r.updated_at > 0 THEN r.updated_at
                      ELSE IF r.created_at > 0 THEN r.created_at ELSE None
           Made(r) == IF r.created_at > 0 THEN r.created_at ELSE None
           After(a, b) == \/ Seen(a) > Seen(b)
                          \/ (Seen(a) = Seen(b) /\ Made(a) > Made(b))
                          \/ (Seen(a) = Seen(b) /\ Made(a) = Made(b) /\ a.id > b.id)
           cand == {i \in 1..Len(own) :
                       own[i].status \in {"P", "N", "R", "p", "n", "r"}}
           items == {k \in 1..Len(v.advice) :
                        v.advice[k].type = "PAYMENT_NOT_ACCEPTED"}
       IN  IF v.redemption_eligibility.meets_min_requirement /\ cand # {}
           THEN LET i == CHOOSE c \in cand :
                             \A o \in cand \ {c} : After(own[c], own[o])
                    shown == v.latest_non_accepted_transfer
                IN  /\ \E c \in cand : \A o \in cand \ {c} : After(own[c], own[o])
                    /\ Len(shown) = 1
                    /\ shown[1].id = own[i].id
                    /\ shown[1].status = own[i].status
                    /\ shown[1].reason_message = own[i].reason_message
                    /\ shown[1].created_at = own[i].created_at
                    /\ shown[1].updated_at = own[i].updated_at
                    /\ Cardinality(items) = 1
                    /\ \A k \in items :
                           /\ v.advice[k].status = own[i].status
                           /\ v.advice[k].reason_message = own[i].reason_message
                           /\ v.advice[k].created_at = own[i].created_at
           ELSE /\ v.latest_non_accepted_transfer = <<>>
                /\ items = {}

\* A repeat customer with balance 600 whose newest transfer succeeded and
\* whose older transfer is pending, asked for the last 1 entry: the pending
\* transfer is surfaced although it is not among the returned entries.
C21_Witness ==
    /\ redeemVerdict.success
    /\ call # <<>>
    /\ call[1].limit = 1
    /\ Len(transferFile.rows) = 2
    /\ redeemVerdict.redemption_eligibility.meets_min_requirement
    /\ Len(redeemVerdict.entries) = 1
    /\ redeemVerdict.entries[1].status = "Y"
    /\ Len(redeemVerdict.latest_non_accepted_transfer) = 1
    /\ redeemVerdict.latest_non_accepted_transfer[1].status = "P"
    /\ redeemVerdict.latest_non_accepted_transfer[1].id
           # redeemVerdict.entries[1].id

DefaultScanLimit == 50

GeoRadiusMeters == 22

PendingWaitDays == 2

\* len(coupon_code) on the code texts of the model.
CodeLength(code) ==
    CASE code = "123456789012" -> 12
      [] code = "1234567890123" -> 13
      [] OTHER -> 0

\* text.strip().upper() on the role and method texts of the model.
UpperText(text) ==
    CASE text = "painter " -> "PAINTER"
      [] text = "c" -> "C"
      [] text = "m" -> "M"
      [] OTHER -> text

\* Python's `a or b` on two raw timestamp cells: an empty cell is falsy.
RawOr(a, b) == IF a # Blank THEN a ELSE b

\* The scan sort key: (updated_at or created_at, created_at).
ScanSortKey(row) ==
    [first |-> OrElse(_parse_dt(row.updated_at), _parse_dt(row.created_at)),
     second |-> _parse_dt(row.created_at)]

\* Comparing two key tuples raises TypeError when the first components that
\* differ are None on one side and a datetime on the other.
ScanKeysIncomparable(a, b) ==
    \/ (a.first = None) # (b.first = None)
    \/ (a.first = b.first /\ (a.second = None) # (b.second = None))

ScanKeyGreater(a, b) ==
    \/ a.first > b.first
    \/ (a.first = b.first /\ a.second > b.second)

ScanSortRaises(rows) ==
    \E i, j \in 1..Len(rows) :
        ScanKeysIncomparable(ScanSortKey(rows[i]), ScanSortKey(rows[j]))

\* rows.sort(key=_sort_key, reverse=(order.lower() != "asc"))
SortScanRows(rows, order) ==
    LET n == Len(rows)
        before == [i \in 1..n, j \in 1..n |->
                      IF order = "asc"
                      THEN ScanKeyGreater(ScanSortKey(rows[j]), ScanSortKey(rows[i]))
                      ELSE ScanKeyGreater(ScanSortKey(rows[i]), ScanSortKey(rows[j]))]
    IN  Permute(rows, StableOrder(n, before))

\* limited_rows = rows[: max(1, limit)] if limit else rows
LimitScanRows(rows, limit) == IF limit # 0 THEN Take(rows, Max(1, limit)) ELSE rows

\* ref_map.get(id, []): the reference rows of one scan record, in file order.
RefRowsOf(refs, id) ==
    IF ~refs.exists THEN <<>>
    ELSE SelectSeq(refs.rows, LAMBDA r : r.code_history_id = id)

\* The key of the ownership scan: created_at or updated_at, else datetime.min.
OwnershipKey(row) ==
    OrElse(OrElse(_parse_dt(row.created_at), _parse_dt(row.updated_at)), DtMin)

\* sorted(code_rows, key=...): ascending, stable.
PriorRowsSorted(code_rows) ==
    LET n == Len(code_rows)
        before == [i \in 1..n, j \in 1..n |->
                      OwnershipKey(code_rows[i]) < OwnershipKey(code_rows[j])]
    IN  Permute(code_rows, StableOrder(n, before))

UsedStatuses == {"Y", "A"}

\* own_prior after the loop: the first used record owned by the caller.
OwnPrior(sorted, caller_id) ==
    LET hits == {p \in 1..Len(sorted) :
                    /\ sorted[p].status \in UsedStatuses
                    /\ caller_id # ""
                    /\ _normalize_opus_pc_id(sorted[p].opus_pc_id) = caller_id}
    IN  IF hits = {} THEN <<>> ELSE <<sorted[MinOf(hits)]>>

\* other_prior after the loop: the first used record not owned by the caller
\* (any used record when the caller is unknown).
OtherPrior(sorted, caller_id) ==
    LET hits == {p \in 1..Len(sorted) :
                    /\ sorted[p].status \in UsedStatuses
                    /\ ~(caller_id # ""
                         /\ _normalize_opus_pc_id(sorted[p].opus_pc_id) = caller_id)
                    /\ (caller_id = ""
                        \/ _normalize_opus_pc_id(sorted[p].opus_pc_id) # caller_id)}
    IN  IF hits = {} THEN <<>> ELSE <<sorted[MinOf(hits)]>>

\* The branch `if own_prior: ... elif other_prior: ...`: which record the
\* ownership verdict is about.  The result is <<>> or <<[kind, row]>>.
OwnershipChoiceOff(own_prior, other_prior) ==
    IF other_prior # <<>> THEN <<[kind |-> "other", row |-> other_prior[1]]>>
    ELSE IF own_prior # <<>> THEN <<[kind |-> "own", row |-> own_prior[1]]>>
    ELSE <<>>

OwnershipChoice(own_prior, other_prior) ==
    IF own_prior # <<>> THEN <<[kind |-> "own", row |-> own_prior[1]]>>
    ELSE IF other_prior # <<>> THEN <<[kind |-> "other", row |-> other_prior[1]]>>
    ELSE <<>>

\* The ownership block: <<>> or <<[message, advice]>>.
OwnershipCheck(coupon_code, latest_row, latest_status, code_rows, caller_id) ==
    IF coupon_code = "" \/ latest_status \notin UsedStatuses THEN <<>>
    ELSE
        LET latest_owner == _normalize_opus_pc_id(latest_row.opus_pc_id)
            sorted == PriorRowsSorted(code_rows)
            own0 == OwnPrior(sorted, caller_id)
            other0 == OtherPrior(sorted, caller_id)
            own_prior == IF own0 = <<>> /\ latest_owner # "" /\ caller_id = latest_owner
                         THEN <<latest_row>> ELSE own0
            other_prior == IF other0 = <<>> /\ latest_owner # "" /\ caller_id # ""
                              /\ latest_owner # caller_id
                           THEN <<latest_row>> ELSE other0
            choice == OwnershipChoice(own_prior, other_prior)
        IN  IF choice = <<>> THEN <<>>
            ELSE IF choice[1].kind = "own" THEN
                <<[message |-> [kind |-> "already_scanned_by_you",
                                when |-> RawOr(choice[1].row.created_at,
                                               choice[1].row.updated_at)],
                   advice |-> [type |-> "DUPLICATE_SCAN_BY_SAME_USER",
                               scanned_at |-> RawOr(choice[1].row.created_at,
                                                    choice[1].row.updated_at),
                               coupon_code |-> coupon_code]]>>
            ELSE
                <<[message |-> [kind |-> "scanned_by_another_user_create_complaint"],
                   advice |-> [type |-> "CREATE_COMPLAINT_FOR_FRAUD_SCAN",
                               coupon_code |-> coupon_code,
                               scanned_by |-> _normalize_opus_pc_id(choice[1].row.opus_pc_id),
                               scanned_at |-> RawOr(choice[1].row.created_at,
                                                    choice[1].row.updated_at),
                               next_action |-> "call_create_complaint_tool"]]>>

\* derived_type: the classification the code length implies ("" for None).
DerivedType(code) ==
    IF CodeLength(code) = 12 THEN "L"
    ELSE IF CodeLength(code) = 13 THEN "C"
    ELSE ""

\* expected_type of a declared role ("" for None).
ExpectedTypeOff(user_type) ==
    IF UpperText(user_type) = "CONTRACTOR" THEN "C"
    ELSE IF UpperText(user_type) = "PAINTER" THEN "L"
    ELSE ""

ExpectedType(user_type) ==
    IF UpperText(user_type) = "CONTRACTOR" THEN "L"
    ELSE IF UpperText(user_type) = "PAINTER" THEN "C"
    ELSE ""

\* The role / code-type block: <<>> or <<[message, advice]>>.
MismatchCheck(user_type, latest_row) ==
    IF user_type = "" \/ ExpectedType(user_type) = "" THEN <<>>
    ELSE
        LET expected_type == ExpectedType(user_type)
            actual_type == IF latest_row.coupon_type # "" THEN latest_row.coupon_type
                           ELSE DerivedType(latest_row.coupon_code)
        IN  IF actual_type # "" /\ actual_type # expected_type THEN
                <<[message |-> [kind |-> "incorrect_code_type"],
                   advice |-> [type |-> "WRONG_CODE_TYPE",
                               user_type |-> UpperText(user_type),
                               expected_type |-> expected_type,
                               actual_type |-> actual_type]]>>
            ELSE <<>>

PendingRetryMessage == [kind |-> "not_yet_updated_retry_after_2_3_days"]

\* The status-specific block: the message slot, the advice items and the
\* requires_kyc_check flag.
StatusGuidanceOff(latest_status) ==
    IF latest_status = "P" THEN
        [message |-> <<PendingRetryMessage>>, advice |-> <<>>, requires_kyc_check |-> TRUE]
    ELSE IF latest_status = "G" THEN
        [message |-> <<[kind |-> "geo_restricted_scan_22m_away"]>>,
         advice |-> <<>>, requires_kyc_check |-> FALSE]
    ELSE IF latest_status \in {"R", "Z"} THEN
        [message |-> <<[kind |-> "profile_rejected_check_kyc_then_complaint"]>>,
         advice |-> <<>>, requires_kyc_check |-> TRUE]
    ELSE IF latest_status = "E" THEN
        [message |-> <<[kind |-> "code_expired"]>>,
         advice |-> <<>>, requires_kyc_check |-> FALSE]
    ELSE
        [message |-> <<>>, advice |-> <<>>, requires_kyc_check |-> FALSE]

StatusGuidance(latest_status) ==
    IF latest_status = "P" THEN
        [message |-> <<PendingRetryMessage>>,
         advice |-> <<[type |-> "ADVISE_WAIT",
                       wait_days |-> PendingWaitDays,
                       next_action |-> "optionally_check_kyc_status"]>>,
         requires_kyc_check |-> TRUE]
    ELSE IF latest_status = "G" THEN
        [message |-> <<[kind |-> "geo_restricted_scan_22m_away"]>>,
         advice |-> <<[type |-> "GEO_RESTRICTED", radius_m |-> GeoRadiusMeters]>>,
         requires_kyc_check |-> FALSE]
    ELSE IF latest_status \in {"R", "Z"} THEN
        [message |-> <<[kind |-> "profile_rejected_check_kyc_then_complaint"]>>,
         advice |-> <<[type |-> "REJECTED_PROFILE",
                       requires_kyc_check |-> TRUE,
                       next_action |-> "check_kyc_then_create_complaint_if_complete",
                       suggest_contact |-> "TSM"]>>,
         requires_kyc_check |-> TRUE]
    ELSE IF latest_status = "E" THEN
        [message |-> <<[kind |-> "code_expired"]>>,
         advice |-> <<>>,
         requires_kyc_check |-> FALSE]
    ELSE
        [message |-> <<>>, advice |-> <<>>, requires_kyc_check |-> FALSE]

\* Whether some reference row of the rows has the given scan method.
HasMethod(ref_rows, method) ==
    \E k \in 1..Len(ref_rows) : UpperText(ref_rows[k].scan_method) = method

\* user_manual_found: a manual-entry reference row on a record of this code
\* whose owner cell equals the normalized caller id.
UserManualFound(code_rows, refs, caller_id) ==
    \E i \in 1..Len(code_rows) :
        /\ caller_id # ""
        /\ code_rows[i].opus_pc_id = caller_id
        /\ HasMethod(RefRowsOf(refs, code_rows[i].id), "M")

\* The camera / manual block: the message slot, the advice items and the
\* latest reference snapshot (<<>> when there is none).
ManualCheck(coupon_code, latest_row, code_rows, refs, caller_id) ==
    IF coupon_code = "" THEN
        [message |-> <<>>, advice |-> <<>>, latest_ref |-> <<>>]
    ELSE
        LET latest_ref_rows == RefRowsOf(refs, latest_row.id)
            camera == HasMethod(latest_ref_rows, "C")
            manual == UserManualFound(code_rows, refs, caller_id)
        IN  [message |-> IF camera /\ ~manual
                         THEN <<[kind |-> "camera_used_enter_code_manually"]>>
                         ELSE <<>>,
             advice |-> IF camera /\ ~manual
                        THEN <<[type |-> "CAMERA_USED_NO_MANUAL_TRY",
                                next_action |-> "ask_user_manual_entry"]>>
                        ELSE IF camera /\ manual
                        THEN <<[type |-> "CAMERA_USED_AND_MANUAL_TRIED"]>>
                        ELSE <<>>,
             latest_ref |-> IF latest_ref_rows = <<>> THEN <<>>
                            ELSE <<latest_ref_rows[Len(latest_ref_rows)]>>]

\* The guard `not mismatch_message and not already_message and not
\* manual_message` of the 404 branch: nothing stronger was selected.
NothingStrongerSelected(mismatch_message, already_message, manual_message) ==
    mismatch_message = <<>> /\ already_message = <<>> /\ manual_message = <<>>

\* Whether the 404 branch is taken.
UpstreamNotFoundOff(latest_ref, latest_status) ==
    /\ latest_ref # <<>>
    /\ UpperText(latest_ref[1].propix_response) \in {"404 NOT FOUND", "500 ERROR"}
    /\ latest_status # "P"

UpstreamNotFound(latest_ref, latest_status) ==
    /\ latest_ref # <<>>
    /\ UpperText(latest_ref[1].propix_response) = "404 NOT FOUND"
    /\ latest_status # "P"

\* The advice items of the upstream-consistency block.
UpstreamAdvice(latest_ref, latest_status, latest_row) ==
    (IF UpstreamNotFound(latest_ref, latest_status)
     THEN <<[type |-> "REFERENCE_STATUS_MISMATCH",
             expected_status |-> "P",
             actual_status |-> latest_status]>>
     ELSE <<>>)
    \o (IF latest_ref # <<>> /\ UpperText(latest_ref[1].propix_response) = "500 ERROR"
        THEN (IF latest_row.coupon_type # "I"
              THEN <<[type |-> "EXPECTED_COUPON_TYPE_I_FOR_500",
                      actual_coupon_type |-> latest_row.coupon_type]>>
              ELSE <<>>)
             \o (IF latest_row.coupon_code # ""
                 THEN <<[type |-> "SERVER_500_WITH_CODE_PRESENT"]>>
                 ELSE <<>>)
        ELSE <<>>)

\* The coupon length / type sanity block.
LengthCheckAdvice(latest_row) ==
    IF /\ DerivedType(latest_row.coupon_code) # ""
       /\ latest_row.coupon_type \in {"L", "C"}
       /\ latest_row.coupon_type # DerivedType(latest_row.coupon_code)
    THEN <<[type |-> "COUPON_TYPE_LENGTH_MISMATCH",
            coupon_type |-> latest_row.coupon_type,
            derived_type |-> DerivedType(latest_row.coupon_code),
            coupon_code_length |-> CodeLength(latest_row.coupon_code)]>>
    ELSE <<>>

\* The final message: mismatch > already > manual > status-specific > generic.
\* The first four arguments are message slots (<<>> or <<message>>).
ComposeMessageOff(mismatch_message, already_message, manual_message, status_message, generic) ==
    IF mismatch_message # <<>> THEN mismatch_message[1]
    ELSE IF manual_message # <<>> THEN manual_message[1]
    ELSE IF already_message # <<>> THEN already_message[1]
    ELSE IF status_message # <<>> THEN status_message[1]
    ELSE generic

ComposeMessage(mismatch_message, already_message, manual_message, status_message, generic) ==
    IF mismatch_message # <<>> THEN mismatch_message[1]
    ELSE IF already_message # <<>> THEN already_message[1]
    ELSE IF manual_message # <<>> THEN manual_message[1]
    ELSE IF status_message # <<>> THEN status_message[1]
    ELSE generic

\* Points earned by Success records of one classification among the rows.
RECURSIVE PointsEarned(_, _)
PointsEarned(rows, coupon_type) ==
    IF rows = <<>> THEN 0
    ELSE (IF Head(rows).status = "Y" /\ Head(rows).coupon_type = coupon_type
          THEN _safe_int(Head(rows).earn_point) ELSE 0)
         + PointsEarned(Tail(rows), coupon_type)

\* The test `not opus_pc_id and not coupon_code` made before the file is
\* looked at.
NeitherGivenOff(opus_pc_id, coupon_code) == opus_pc_id = "" \/ coupon_code = ""

NeitherGiven(opus_pc_id, coupon_code) == opus_pc_id = "" /\ coupon_code = ""

query_code_history(scans, refs, q) ==
    LET limit == IF q.limit = None THEN DefaultScanLimit ELSE q.limit
        order == IF q.order = "" THEN "desc" ELSE q.order
    IN
    IF NeitherGiven(q.opus_pc_id, q.coupon_code) THEN
        [success |-> FALSE, error |-> "either_opus_pc_id_or_coupon_code_must_be_provided"]
    ELSE IF ~scans.exists THEN
        [success |-> FALSE, error |-> "data_file_not_found"]
    ELSE
        LET matched == SelectSeq(scans.rows, LAMBDA r :
                          /\ (q.opus_pc_id = "" \/ r.opus_pc_id = q.opus_pc_id)
                          /\ (q.coupon_code = "" \/ r.coupon_code = q.coupon_code))
            code_rows == IF q.coupon_code = "" THEN <<>>
                         ELSE SelectSeq(scans.rows,
                                        LAMBDA r : r.coupon_code = q.coupon_code)
        IN
        IF matched = <<>> THEN
            [success |-> FALSE, error |-> "no_matching_scan_records",
             query |-> [opus_pc_id |-> q.opus_pc_id, coupon_code |-> q.coupon_code]]
        ELSE IF ScanSortRaises(matched) THEN
            [success |-> FALSE, error |-> "exception"]
        ELSE
            LET rows == SortScanRows(matched, order)
                limited_rows == LimitScanRows(rows, limit)
                latest_row == limited_rows[1]
                latest_status == latest_row.status
                loyalty == PointsEarned(limited_rows, "L")
                cash == PointsEarned(limited_rows, "C")
                caller_id == _normalize_opus_pc_id(
                                 IF q.caller_opus_pc_id # "" THEN q.caller_opus_pc_id
                                 ELSE q.opus_pc_id)
                mismatch == MismatchCheck(q.user_type, latest_row)
                already == OwnershipCheck(q.coupon_code, latest_row, latest_status,
                                          code_rows, caller_id)
                status == StatusGuidance(latest_status)
                manual == ManualCheck(q.coupon_code, latest_row, code_rows, refs, caller_id)
                mismatch_message == IF mismatch = <<>> THEN <<>> ELSE <<mismatch[1].message>>
                already_message == IF already = <<>> THEN <<>> ELSE <<already[1].message>>
                status_message ==
                    IF /\ UpstreamNotFound(manual.latest_ref, latest_status)
                       /\ NothingStrongerSelected(mismatch_message, already_message,
                                                  manual.message)
                    THEN <<PendingRetryMessage>>
                    ELSE status.message
                generic == [kind |-> "generic_summary",
                            latest_status |-> latest_status,
                            total_scans |-> Len(limited_rows),
                            loyalty |-> loyalty,
                            cash |-> cash]
            IN  [success |-> TRUE,
                 query |-> q,
                 entries |-> [p \in 1..Len(limited_rows) |->
                                 [row |-> limited_rows[p],
                                  reference |->
                                      LET rr == RefRowsOf(refs, limited_rows[p].id)
                                      IN  IF rr = <<>> THEN <<>> ELSE <<rr[Len(rr)]>>]],
                 summary |-> [total_records |-> Len(limited_rows),
                              loyalty_points_earned |-> loyalty,
                              cash_points_earned |-> cash,
                              latest |-> [status |-> latest_status,
                                          id |-> latest_row.id,
                                          coupon_code |-> latest_row.coupon_code,
                                          created_at |-> latest_row.created_at]],
                 message |-> ComposeMessage(mismatch_message, already_message,
                                            manual.message, status_message, generic),
                 advice |-> (IF mismatch = <<>> THEN <<>> ELSE <<mismatch[1].advice>>)
                            \o (IF already = <<>> THEN <<>> ELSE <<already[1].advice>>)
                            \o status.advice
                            \o manual.advice
                            \o UpstreamAdvice(manual.latest_ref, latest_status, latest_row)
                            \o LengthCheckAdvice(latest_row),
                 requires_kyc_check |-> status.requires_kyc_check,
                 derived |-> [coupon_code_length |-> CodeLength(latest_row.coupon_code),
                              derived_type |-> DerivedType(latest_row.coupon_code)]]

\* Bound on the scan records in the runs about ownership.
MaxScanRows == 2

\* Bound on the scan records in the runs with reference rows.
MaxRefScanRows == 1

\* Bound on the rows of the reference file.
MaxRefRows == 2

\* Scan records of one 12-digit loyalty code by two customers (one of them
\* also written without the PC- prefix), used or geo-restricted, at two
\* creation times.
OwnerShapes ==
    [opus_pc_id : {"PC-000001", "PC-000002", "2"},
     coupon_code : {"123456789012"},
     coupon_type : {"L"},
     status : {"Y", "A", "G"},
     created_at : {1, 2},
     updated_at : {Blank},
     earn_point : {10}]

\* Scan records of one customer, one per latest status of interest.
StatusShapes ==
    [opus_pc_id : {"PC-000001"},
     coupon_code : {"123456789012"},
     coupon_type : {"L"},
     status : {"Y", "P", "G", "R", "E", "N"},
     created_at : {1},
     updated_at : {Blank},
     earn_point : {10}]

\* Reference rows: a camera scan with each upstream response, or a manual entry.
RefShapes ==
    [code_history_id : 1..MaxRefScanRows,
     scan_method : {"C"},
     propix_response : {"200 OK", "404 NOT FOUND", "500 ERROR"}]
    \cup
    [code_history_id : 1..MaxRefScanRows,
     scan_method : {"M"},
     propix_response : {"200 OK"}]

ScanQuery(opus, code, caller, role, order, limit) ==
    [opus_pc_id |-> opus, coupon_code |-> code, caller_opus_pc_id |-> caller,
     user_type |-> role, order |-> order, limit |-> limit]

ScanQueries ==
    {ScanQuery("", "", "", "", "", None)}
    \cup {ScanQuery("", "123456789012", caller, "", "", None) :
            caller \in {"", "PC-000001", "1"}}
    \cup {ScanQuery("", "123456789012", caller, "painter ", "", None) :
            caller \in {"", "PC-000001"}}
    \cup {ScanQuery("", "123456789012", "PC-000001", "CONTRACTOR", "", None)}
    \cup {ScanQuery("", "123456789012", "PC-000001", "", "asc", None)}
    \cup {ScanQuery("", "123456789012", "PC-000001", "", "desc", 1)}
    \cup {ScanQuery("PC-000001", "123456789012", "", "", "", None)}
    \cup {ScanQuery(opus, "", "", "", "", 0) : opus \in {"PC-000001", "PC-000003"}}

OthersIdleForScan ==
    /\ blockFile = EmptyFile /\ blockVerdict = NoVerdict
    /\ kycFile = EmptyFile /\ kycVerdict = NoVerdict
    /\ transferFile = EmptyFile /\ pointFile = EmptyFile
    /\ balanceResult = NoVerdict /\ redeemVerdict = NoVerdict

\* Runs about ownership: up to MaxScanRows records, no reference file.
InitScanOwners ==
    /\ \E shapes \in SeqsUpTo(OwnerShapes, MaxScanRows) :
          scanFile = [exists |-> TRUE, rows |-> WithIds(shapes)]
    /\ refFile = [exists |-> FALSE, rows |-> <<>>]

\* Runs about the message and the advice list: records of one customer with
\* reference rows, or no scan file at all.  The reference map groups the
\* rows by record and keeps the file order within a record, so the rows are
\* drawn grouped by record.
InitScanReferences ==
    \/ /\ \E shapes \in SeqsUpTo(StatusShapes, MaxRefScanRows) :
             scanFile = [exists |-> TRUE, rows |-> WithIds(shapes)]
       /\ \E rr \in SeqsUpTo(RefShapes, MaxRefRows) :
             /\ \A k \in 1..(Len(rr) - 1) :
                   rr[k].code_history_id <= rr[k + 1].code_history_id
             /\ refFile = [exists |-> TRUE, rows |-> rr]
    \/ /\ scanFile = [exists |-> FALSE, rows |-> <<>>]
       /\ refFile = [exists |-> FALSE, rows |-> <<>>]

InitScan ==
    /\ InitScanOwners \/ InitScanReferences
    /\ scanVerdict = NoVerdict
    /\ call = <<>>
    /\ StoreIdle
    /\ OthersIdleForScan

\* One call of the evaluator.  The evaluator keeps nothing between calls and
\* leaves the files alone, so a run holds one call.
QueryCodeHistory ==
    /\ scanVerdict = NoVerdict
    /\ \E q \in ScanQueries :
          /\ scanVerdict' = query_code_history(scanFile, refFile, q)
          /\ call' = <<q>>
    /\ UNCHANGED <<scanFile, refFile, blockVars, kycVars, redeemVars, storeVars>>

NextScan == QueryCodeHistory

SpecScan == InitScan /\ [][NextScan]_vars

\* C6: when a code was asked for, its latest status is Success or
\* AlreadyUsed, the caller is known and the history of the code holds a
\* Success/AlreadyUsed record of the caller that is earlier than one of a
\* different customer, the advice list holds DUPLICATE_SCAN_BY_SAME_USER and
\* no CREATE_COMPLAINT_FOR_FRAUD_SCAN, and the message is "already scanned by
\* you" unless the role / code-type mismatch message precedes it.
C6_OwnEarlierThanOtherIsDuplicate ==
    scanVerdict.success =>
        LET q == scanVerdict.query
            caller == _normalize_opus_pc_id(IF q.caller_opus_pc_id # ""
                                            THEN q.caller_opus_pc_id ELSE q.opus_pc_id)
            types == {scanVerdict.advice[k].type : k \in 1..Len(scanVerdict.advice)}
            used(i) == /\ scanFile.rows[i].coupon_code = q.coupon_code
                       /\ scanFile.rows[i].status \in {"Y", "A"}
                       /\ scanFile.rows[i].created_at > 0
            owner(i) == _normalize_opus_pc_id(scanFile.rows[i].opus_pc_id)
        IN  (/\ q.coupon_code # ""
             /\ caller # ""
             /\ scanVerdict.summary.latest.status \in {"Y", "A"}
             /\ \E i, j \in 1..Len(scanFile.rows) :
                    /\ used(i) /\ used(j)
                    /\ owner(i) = caller /\ owner(j) # caller
                    /\ scanFile.rows[i].created_at < scanFile.rows[j].created_at)
            => /\ "DUPLICATE_SCAN_BY_SAME_USER" \in types
               /\ "CREATE_COMPLAINT_FOR_FRAUD_SCAN" \notin types
               /\ scanVerdict.message.kind # "scanned_by_another_user_create_complaint"
               /\ ("WRONG_CODE_TYPE" \notin types
                   => scanVerdict.message.kind = "already_scanned_by_you")

\* A verdict on a code the caller used at time 1 and another customer at
\* time 2, asked for by the caller: "already scanned by you".
C6_Witness ==
    /\ scanVerdict.success
    /\ scanVerdict.query.coupon_code # ""
    /\ scanVerdict.query.caller_opus_pc_id = "PC-000001"
    /\ Len(scanFile.rows) = 2
    /\ \E i, j \in 1..2 :
          /\ scanFile.rows[i].opus_pc_id = "PC-000001"
          /\ scanFile.rows[i].status = "Y" /\ scanFile.rows[i].created_at = 1
          /\ scanFile.rows[j].opus_pc_id = "PC-000002"
          /\ scanFile.rows[j].status = "A" /\ scanFile.rows[j].created_at = 2
    /\ scanVerdict.summary.latest.status = "A"
    /\ scanVerdict.message.kind = "already_scanned_by_you"

\* C7: when a code was asked for, its latest status is Success or
\* AlreadyUsed and the caller is known, the verdict follows an earliest
\* Success/AlreadyUsed record of the whole history of the code: owned by the
\* caller, the advice is DUPLICATE_SCAN_BY_SAME_USER (no next action, no
\* complaint); owned by someone else, the advice is
\* CREATE_COMPLAINT_FOR_FRAUD_SCAN citing that owner and the time of that
\* record.
C7_EarliestUsedRecordDecides ==
    scanVerdict.success =>
        LET q == scanVerdict.query
            caller == _normalize_opus_pc_id(IF q.caller_opus_pc_id # ""
                                            THEN q.caller_opus_pc_id ELSE q.opus_pc_id)
            advice == scanVerdict.advice
            types == {advice[k].type : k \in 1..Len(advice)}
            n == Len(scanFile.rows)
            used(i) == /\ scanFile.rows[i].coupon_code = q.coupon_code
                       /\ scanFile.rows[i].status \in {"Y", "A"}
                       /\ scanFile.rows[i].created_at > 0
            owner(i) == _normalize_opus_pc_id(scanFile.rows[i].opus_pc_id)
            earliest(i) == /\ used(i)
                           /\ \A j \in 1..n :
                                 used(j) => scanFile.rows[i].created_at
                                                <= scanFile.rows[j].created_at
            follows(i) ==
                IF owner(i) = caller
                THEN /\ "CREATE_COMPLAINT_FOR_FRAUD_SCAN" \notin types
                     /\ \E k \in 1..Len(advice) :
                           /\ advice[k].type = "DUPLICATE_SCAN_BY_SAME_USER"
                           /\ "next_action" \notin DOMAIN advice[k]
                ELSE /\ "DUPLICATE_SCAN_BY_SAME_USER" \notin types
                     /\ \E k \in 1..Len(advice) :
                           /\ advice[k].type = "CREATE_COMPLAINT_FOR_FRAUD_SCAN"
                           /\ advice[k].scanned_by = owner(i)
                           /\ advice[k].scanned_at = scanFile.rows[i].created_at
                           /\ advice[k].next_action = "call_create_complaint_tool"
        IN  (/\ q.coupon_code # ""
             /\ caller # ""
             /\ scanVerdict.summary.latest.status \in {"Y", "A"}
             /\ \A i \in 1..n : scanFile.rows[i].coupon_code = q.coupon_code
                                    => scanFile.rows[i].created_at > 0)
            => \E i \in 1..n : earliest(i) /\ follows(i)

\* A verdict on a code another customer used at time 1 and the caller at
\* time 2, asked for by the caller: the evaluator answers "already scanned by
\* you" although the earliest used record is the other customer's.
C7_Witness ==
    /\ scanVerdict.success
    /\ scanVerdict.query.coupon_code # ""
    /\ scanVerdict.query.caller_opus_pc_id = "PC-000001"
    /\ Len(scanFile.rows) = 2
    /\ scanFile.rows[1].opus_pc_id = "PC-000002"
    /\ scanFile.rows[1].status = "Y" /\ scanFile.rows[1].created_at = 1
    /\ scanFile.rows[2].opus_pc_id = "PC-000001"
    /\ scanFile.rows[2].status = "A" /\ scanFile.rows[2].created_at = 2
    /\ \E k \in 1..Len(scanVerdict.advice) :
          scanVerdict.advice[k].type = "DUPLICATE_SCAN_BY_SAME_USER"
    /\ \A k \in 1..Len(scanVerdict.advice) :
          scanVerdict.advice[k].type # "CREATE_COMPLAINT_FOR_FRAUD_SCAN"

\* C8 as stated: in every successful verdict the message is the mismatch
\* message when a mismatch was detected, else the ownership message when one
\* was produced, else the manual-entry message, else the message of the
\* latest status (Pending, GeoRestricted, Rejected, Expired), else the
\* generic summary.
C8_MessagePrecedenceAsStated ==
    scanVerdict.success =>
        LET types == {scanVerdict.advice[k].type : k \in 1..Len(scanVerdict.advice)}
            st == scanVerdict.summary.latest.status
            kind == scanVerdict.message.kind
        IN  IF "WRONG_CODE_TYPE" \in types THEN kind = "incorrect_code_type"
            ELSE IF "DUPLICATE_SCAN_BY_SAME_USER" \in types
                 THEN kind = "already_scanned_by_you"
            ELSE IF "CREATE_COMPLAINT_FOR_FRAUD_SCAN" \in types
                 THEN kind = "scanned_by_another_user_create_complaint"
            ELSE IF "CAMERA_USED_NO_MANUAL_TRY" \in types
                 THEN kind = "camera_used_enter_code_manually"
            ELSE IF st = "P" THEN kind = "not_yet_updated_retry_after_2_3_days"
            ELSE IF st = "G" THEN kind = "geo_restricted_scan_22m_away"
            ELSE IF st \in {"R", "Z"} THEN kind = "profile_rejected_check_kyc_then_complaint"
            ELSE IF st = "E" THEN kind = "code_expired"
            ELSE kind = "generic_summary"

\* C8, amended: the precedence is mismatch, ownership, manual entry, status
\* slot, generic summary, where the status slot holds the retry-after-2-3-days
\* message whenever a code was asked for and the latest reference snapshot
\* of the latest record says "404 NOT FOUND" while the latest status is not
\* Pending, and the message of the latest status otherwise.  The generic
\* summary repeats the figures of the summary.
C8_MessagePrecedence ==
    scanVerdict.success =>
        LET types == {scanVerdict.advice[k].type : k \in 1..Len(scanVerdict.advice)}
            st == scanVerdict.summary.latest.status
            kind == scanVerdict.message.kind
            ref == scanVerdict.entries[1].reference
            notFound == /\ scanVerdict.query.coupon_code # ""
                        /\ ref # <<>>
                        /\ ref[1].propix_response = "404 NOT FOUND"
                        /\ st # "P"
        IN  IF "WRONG_CODE_TYPE" \in types THEN kind = "incorrect_code_type"
            ELSE IF "DUPLICATE_SCAN_BY_SAME_USER" \in types
                 THEN kind = "already_scanned_by_you"
            ELSE IF "CREATE_COMPLAINT_FOR_FRAUD_SCAN" \in types
                 THEN kind = "scanned_by_another_user_create_complaint"
            ELSE IF "CAMERA_USED_NO_MANUAL_TRY" \in types
                 THEN kind = "camera_used_enter_code_manually"
            ELSE IF notFound \/ st = "P" THEN kind = "not_yet_updated_retry_after_2_3_days"
            ELSE IF st = "G" THEN kind = "geo_restricted_scan_22m_away"
            ELSE IF st \in {"R", "Z"} THEN kind = "profile_rejected_check_kyc_then_complaint"
            ELSE IF st = "E" THEN kind = "code_expired"
            ELSE /\ kind = "generic_summary"
                 /\ scanVerdict.message.latest_status = st
                 /\ scanVerdict.message.total_scans = scanVerdict.summary.total_records
                 /\ scanVerdict.message.loyalty = scanVerdict.summary.loyalty_points_earned
                 /\ scanVerdict.message.cash = scanVerdict.summary.cash_points_earned

\* A verdict in which the mismatch, the ownership and the manual-entry
\* conditions are all triggered and the message is the mismatch message.
C8_Witness ==
    /\ scanVerdict.success
    /\ {"WRONG_CODE_TYPE", "DUPLICATE_SCAN_BY_SAME_USER", "CAMERA_USED_NO_MANUAL_TRY"}
          \subseteq {scanVerdict.advice[k].type : k \in 1..Len(scanVerdict.advice)}
    /\ scanVerdict.message.kind = "incorrect_code_type"

C10_EveryConditionHasAdvice ==
    scanVerdict.success =>
        LET q == scanVerdict.query
            caller == _normalize_opus_pc_id(IF q.caller_opus_pc_id # ""
                                            THEN q.caller_opus_pc_id ELSE q.opus_pc_id)
            types == {scanVerdict.advice[k].type : k \in 1..Len(scanVerdict.advice)}
            st == scanVerdict.summary.latest.status
            latest == scanVerdict.entries[1].row
            refsOf(id) == SelectSeq(refFile.rows, LAMBDA r : r.code_history_id = id)
            camera == \E k \in 1..Len(refsOf(latest.id)) :
                         refsOf(latest.id)[k].scan_method = "C"
            manual == \E i \in 1..Len(scanFile.rows) :
                         /\ scanFile.rows[i].coupon_code = q.coupon_code
                         /\ caller # "" /\ scanFile.rows[i].opus_pc_id = caller
                         /\ \E k \in 1..Len(refsOf(scanFile.rows[i].id)) :
                               refsOf(scanFile.rows[i].id)[k].scan_method = "M"
            others == {"WRONG_CODE_TYPE", "DUPLICATE_SCAN_BY_SAME_USER",
                       "CREATE_COMPLAINT_FOR_FRAUD_SCAN", "ADVISE_WAIT", "GEO_RESTRICTED",
                       "REJECTED_PROFILE", "CAMERA_USED_NO_MANUAL_TRY",
                       "CAMERA_USED_AND_MANUAL_TRIED", "REFERENCE_STATUS_MISMATCH",
                       "EXPECTED_COUPON_TYPE_I_FOR_500", "SERVER_500_WITH_CODE_PRESENT",
                       "COUPON_TYPE_LENGTH_MISMATCH"}
        IN  /\ (q.user_type = "painter " /\ latest.coupon_type = "L")
                  => "WRONG_CODE_TYPE" \in types
            /\ (q.coupon_code # "" /\ st \in {"Y", "A"})
                  => types \cap {"DUPLICATE_SCAN_BY_SAME_USER",
                                 "CREATE_COMPLAINT_FOR_FRAUD_SCAN"} # {}
            /\ (q.coupon_code # "" /\ camera /\ ~manual)
                  => "CAMERA_USED_NO_MANUAL_TRY" \in types
            /\ st = "P" => "ADVISE_WAIT" \in types
            /\ st = "G" => "GEO_RESTRICTED" \in types
            /\ st \in {"R", "Z"} => "REJECTED_PROFILE" \in types
            /\ st = "E" => types \ others # {}

\* C10, amended: each triggered condition other than Expired has an item of
\* its own in the advice list, whether or not its message was chosen.  A
\* latest status Expired adds no item: it shows in the message only, and
\* only when no mismatch, ownership or manual-entry message and no
\* "404 NOT FOUND" snapshot precedes it.
C10_EveryConditionButExpiredHasAdvice ==
    scanVerdict.success =>
        LET q == scanVerdict.query
            caller == _normalize_opus_pc_id(IF q.caller_opus_pc_id # ""
                                            THEN q.caller_opus_pc_id ELSE q.opus_pc_id)
            types == {scanVerdict.advice[k].type : k \in 1..Len(scanVerdict.advice)}
            st == scanVerdict.summary.latest.status
            latest == scanVerdict.entries[1].row
            refsOf(id) == SelectSeq(refFile.rows, LAMBDA r : r.code_history_id = id)
            camera == \E k \in 1..Len(refsOf(latest.id)) :
                         refsOf(latest.id)[k].scan_method = "C"
            manual == \E i \in 1..Len(scanFile.rows) :
                         /\ scanFile.rows[i].coupon_code = q.coupon_code
                         /\ caller # "" /\ scanFile.rows[i].opus_pc_id = caller
                         /\ \E k \in 1..Len(refsOf(scanFile.rows[i].id)) :
                               refsOf(scanFile.rows[i].id)[k].scan_method = "M"
            others == {"WRONG_CODE_TYPE", "DUPLICATE_SCAN_BY_SAME_USER",
                       "CREATE_COMPLAINT_FOR_FRAUD_SCAN", "ADVISE_WAIT", "GEO_RESTRICTED",
                       "REJECTED_PROFILE", "CAMERA_USED_NO_MANUAL_TRY",
                       "CAMERA_USED_AND_MANUAL_TRIED", "REFERENCE_STATUS_MISMATCH",
                       "EXPECTED_COUPON_TYPE_I_FOR_500", "SERVER_500_WITH_CODE_PRESENT",
                       "COUPON_TYPE_LENGTH_MISMATCH"}
            stronger == types \cap {"WRONG_CODE_TYPE", "CAMERA_USED_NO_MANUAL_TRY",
                                    "REFERENCE_STATUS_MISMATCH"} # {}
        IN  /\ (q.user_type = "painter " /\ latest.coupon_type = "L")
                  => "WRONG_CODE_TYPE" \in types
            /\ (q.coupon_code # "" /\ st \in {"Y", "A"})
                  => types \cap {"DUPLICATE_SCAN_BY_SAME_USER",
                                 "CREATE_COMPLAINT_FOR_FRAUD_SCAN"} # {}
            /\ (q.coupon_code # "" /\ camera /\ ~manual)
                  => "CAMERA_USED_NO_MANUAL_TRY" \in types
            /\ st = "P" => "ADVISE_WAIT" \in types
            /\ st = "G" => "GEO_RESTRICTED" \in types
            /\ st \in {"R", "Z"} => "REJECTED_PROFILE" \in types
            /\ st = "E" => /\ types \subseteq others
                           /\ types \cap {"ADVISE_WAIT", "GEO_RESTRICTED",
                                          "REJECTED_PROFILE"} = {}
                           /\ (scanVerdict.message.kind = "code_expired") <=> ~stronger

\* A verdict on a geo-restricted record with a role mismatch and a camera
\* scan without manual entry: the message is the mismatch message and the
\* advice list still holds the items of all three conditions.
C10_Witness ==
    /\ scanVerdict.success
    /\ scanVerdict.summary.latest.status = "G"
    /\ scanVerdict.message.kind = "incorrect_code_type"
    /\ {"WRONG_CODE_TYPE", "GEO_RESTRICTED", "CAMERA_USED_NO_MANUAL_TRY"}
          \subseteq {scanVerdict.advice[k].type : k \in 1..Len(scanVerdict.advice)}

\* The two error results of the scan evaluator the input contract tells
\* apart.
ScanUsageError ==
    [success |-> FALSE, error |-> "either_opus_pc_id_or_coupon_code_must_be_provided"]

ScanNotFound(q) ==
    [success |-> FALSE, error |-> "no_matching_scan_records",
     query |-> [opus_pc_id |-> q.opus_pc_id, coupon_code |-> q.coupon_code]]

\* C19: a call of the scan evaluator returns the usage error exactly when
\* neither a code nor a customer identifier was given; the usage error is
\* returned whatever the record store holds, also when the store does not
\* exist, and differs from the "not found" result; a call with at least one
\* of the two returns "not found" exactly when the store exists and no
\* record matches what was given.
C19_UsageErrorIffNeitherGiven ==
    call # <<>>
    => LET q == call[1]
           matches == {i \in 1..Len(scanFile.rows) :
                          /\ (q.opus_pc_id = ""
                              \/ scanFile.rows[i].opus_pc_id = q.opus_pc_id)
                          /\ (q.coupon_code = ""
                              \/ scanFile.rows[i].coupon_code = q.coupon_code)}
       IN  /\ (scanVerdict = ScanUsageError)
               <=> (q.opus_pc_id = "" /\ q.coupon_code = "")
           /\ ScanUsageError # ScanNotFound(q)
           /\ (q.opus_pc_id # "" \/ q.coupon_code # "")
              => ((scanVerdict = ScanNotFound(q))
                  <=> (scanFile.exists /\ matches = {}))

\* A call without code and identifier while the scan file does not exist:
\* the usage error, not the missing-file error.
C19_Witness ==
    /\ call # <<>>
    /\ call[1].opus_pc_id = ""
    /\ call[1].coupon_code = ""
    /\ ~scanFile.exists
    /\ scanVerdict = ScanUsageError

\* C29: in every verdict CREATE_COMPLAINT_FOR_FRAUD_SCAN is present only if
\* a caller identifier is known (caller_opus_pc_id or opus_pc_id given) and
\* some Success/AlreadyUsed record of the code belongs to an owner other
\* than that caller; it is never present together with
\* DUPLICATE_SCAN_BY_SAME_USER; a query by code alone without caller
\* identity never produces it.
C29_FraudAdviceNeedsKnownOtherOwner ==
    (scanVerdict.success /\ call # <<>>)
    => LET q == call[1]
           caller == _normalize_opus_pc_id(IF q.caller_opus_pc_id # ""
                                           THEN q.caller_opus_pc_id ELSE q.opus_pc_id)
           types == {scanVerdict.advice[k].type : k \in 1..Len(scanVerdict.advice)}
           fraud == "CREATE_COMPLAINT_FOR_FRAUD_SCAN" \in types
       IN  /\ fraud
              => /\ caller # ""
                 /\ \E i \in 1..Len(scanFile.rows) :
                        /\ scanFile.rows[i].coupon_code = q.coupon_code
                        /\ scanFile.rows[i].status \in {"Y", "A"}
                        /\ _normalize_opus_pc_id(scanFile.rows[i].opus_pc_id) # caller
           /\ ~(fraud /\ "DUPLICATE_SCAN_BY_SAME_USER" \in types)
           /\ (q.caller_opus_pc_id = "" /\ q.opus_pc_id = "") => ~fraud

\* A query by code alone, without caller identity, on a code with one used
\* record: the verdict recommends a fraud complaint against the record's
\* owner.
C29_Witness ==
    /\ scanVerdict.success
    /\ call # <<>>
    /\ call[1].caller_opus_pc_id = ""
    /\ call[1].opus_pc_id = ""
    /\ call[1].coupon_code = "123456789012"
    /\ Len(scanFile.rows) = 1
    /\ scanFile.rows[1].status = "Y"
    /\ \E k \in 1..Len(scanVerdict.advice) :
           /\ scanVerdict.advice[k].type = "CREATE_COMPLAINT_FOR_FRAUD_SCAN"
           /\ scanVerdict.advice[k].scanned_by
                  = _normalize_opus_pc_id(scanFile.rows[1].opus_pc_id)
    /\ scanVerdict.message.kind = "scanned_by_another_user_create_complaint"

\* ------------------------------------------------------------------------
\* Scan history evaluator: code classification and manual entry
\* ------------------------------------------------------------------------

\* Scan records of customer 1 with a 12-digit, a 13-digit or a shorter code
\* and each stored classification (empty, Loyalty, Cash, Invalid).  The
\* records share their times, so the first record of the file is the latest.
TypeShapes ==
    [opus_pc_id : {"PC-000001"},
     coupon_code : {"123456789012", "1234567890123", "12345"},
     coupon_type : {"", "L", "C", "I"},
     status : {"Y"},
     created_at : {1},
     updated_at : {Blank},
     earn_point : {10}]

\* Scan records of one code by customer 2, whose identifier is stored with
\* or without the PC- prefix.
ManualShapes ==
    [opus_pc_id : {"PC-000002", "2"},
     coupon_code : {"123456789012"},
     coupon_type : {"L"},
     status : {"P"},
     created_at : {1},
     updated_at : {Blank},
     earn_point : {10}]

\* Reference rows of these records: a camera scan or a manual entry.
ManualRefShapes ==
    [code_history_id : 1..MaxScanRows,
     scan_method : {"C", "M"},
     propix_response : {"200 OK"}]

\* Calls by customer with a declared role, and calls by code with and
\* without a caller.
DetailQueries ==
    {ScanQuery("PC-000001", "", "", role, "", None) :
        role \in {"", "painter ", "CONTRACTOR", "DEALER"}}
    \cup {ScanQuery("", "123456789012", caller, "", "", None) :
            caller \in {"", "2", "PC-000002"}}
    \cup {ScanQuery("PC-000002", "", "", "", "", None)}

\* Records with each classification and no reference file, or records of
\* customer 2 with reference rows grouped by record.
InitScanDetail ==
    /\ \/ /\ \E shapes \in SeqsUpTo(TypeShapes, MaxScanRows) :
                scanFile = [exists |-> TRUE, rows |-> WithIds(shapes)]
          /\ refFile = [exists |-> FALSE, rows |-> <<>>]
       \/ /\ \E shapes \in SeqsUpTo(ManualShapes, MaxScanRows) :
                scanFile = [exists |-> TRUE, rows |-> WithIds(shapes)]
          /\ \E rr \in SeqsUpTo(ManualRefShapes, MaxRefRows) :
                /\ \A k \in 1..(Len(rr) - 1) :
                      rr[k].code_history_id <= rr[k + 1].code_history_id
                /\ refFile = [exists |-> TRUE, rows |-> rr]
    /\ scanVerdict = NoVerdict
    /\ call = <<>>
    /\ StoreIdle
    /\ OthersIdleForScan

\* One call of the evaluator.
QueryCodeHistoryDetail ==
    /\ scanVerdict = NoVerdict
    /\ \E q \in DetailQueries :
          /\ scanVerdict' = query_code_history(scanFile, refFile, q)
          /\ call' = <<q>>
    /\ UNCHANGED <<scanFile, refFile, blockVars, kycVars, redeemVars, storeVars>>

SpecScanDetail == InitScanDetail /\ [][QueryCodeHistoryDetail]_vars

\* C23: with a declared role the expected classification is L for
\* Contractor and C for Painter (letter case and surrounding blanks of the
\* role ignored); the advice list holds WRONG_CODE_TYPE, as its first item,
\* and the message is the "incorrect code type" message, exactly when the
\* stored classification of the latest record (or, when that is empty, the
\* one its code length implies) is known and differs from the expected one;
\* without a role, or with another role, no mismatch is reported.
C23_RoleCodeTypeMismatch ==
    (scanVerdict.success /\ call # <<>>)
    => LET q == call[1]
           latest == scanVerdict.entries[1].row
           expected == CASE q.user_type = "CONTRACTOR" -> "L"
                         [] q.user_type = "painter " -> "C"
                         [] OTHER -> ""
           implied == CASE latest.coupon_code = "123456789012" -> "L"
                        [] latest.coupon_code = "1234567890123" -> "C"
                        [] OTHER -> ""
           actual == IF latest.coupon_type # "" THEN latest.coupon_type ELSE implied
           mismatch == expected # "" /\ actual # "" /\ actual # expected
           items == {k \in 1..Len(scanVerdict.advice) :
                        scanVerdict.advice[k].type = "WRONG_CODE_TYPE"}
       IN  /\ (items # {}) <=> mismatch
           /\ (scanVerdict.message.kind = "incorrect_code_type") <=> mismatch
           /\ mismatch
              => /\ items = {1}
                 /\ scanVerdict.advice[1].expected_type = expected
                 /\ scanVerdict.advice[1].actual_type = actual

\* A Painter whose latest record has no stored classification and a
\* 12-digit code: the length implies Loyalty, which is not what a Painter
\* scans.
C23_Witness ==
    /\ scanVerdict.success
    /\ call # <<>>
    /\ call[1].user_type = "painter "
    /\ scanVerdict.entries[1].row.coupon_type = ""
    /\ scanVerdict.entries[1].row.coupon_code = "123456789012"
    /\ scanVerdict.advice[1].type = "WRONG_CODE_TYPE"
    /\ scanVerdict.advice[1].actual_type = "L"
    /\ scanVerdict.message.kind = "incorrect_code_type"

\* C24: every returned scan record with a 12-digit code classified as Cash
\* or a 13-digit code classified as Loyalty is flagged by a
\* COUPON_TYPE_LENGTH_MISMATCH advice item that names its stored
\* classification and its length, and every returned record carries the
\* classification stored in the file.
C24_EveryLengthMismatchFlagged ==
    scanVerdict.success
    => \A p \in 1..Len(scanVerdict.entries) :
          LET row == scanVerdict.entries[p].row
              length == CASE row.coupon_code = "123456789012" -> 12
                          [] row.coupon_code = "1234567890123" -> 13
                          [] OTHER -> 0
          IN  /\ \E i \in 1..Len(scanFile.rows) : scanFile.rows[i] = row
              /\ ((length = 12 /\ row.coupon_type = "C")
                  \/ (length = 13 /\ row.coupon_type = "L"))
                 => \E k \in 1..Len(scanVerdict.advice) :
                        /\ scanVerdict.advice[k].type = "COUPON_TYPE_LENGTH_MISMATCH"
                        /\ scanVerdict.advice[k].coupon_type = row.coupon_type
                        /\ scanVerdict.advice[k].coupon_code_length = length

\* Two records of the customer: the latest is a 12-digit Loyalty code, the
\* other a 12-digit code classified as Cash; both are returned and the
\* advice list is empty.
C24_Witness ==
    /\ scanVerdict.success
    /\ Len(scanVerdict.entries) = 2
    /\ scanVerdict.entries[1].row.coupon_code = "123456789012"
    /\ scanVerdict.entries[1].row.coupon_type = "L"
    /\ scanVerdict.entries[2].row.coupon_code = "123456789012"
    /\ scanVerdict.entries[2].row.coupon_type = "C"
    /\ scanVerdict.advice = <<>>

\* C28: CAMERA_USED_NO_MANUAL_TRY is in the advice list exactly when a code
\* was supplied, some reference row of the latest record has the camera
\* method, and no record of this code owned by the caller has a reference
\* row with the manual method; when such a manual attempt exists, neither
\* the advice item nor the "enter the code manually" message is produced.
C28_ManualEntryFallback ==
    (scanVerdict.success /\ call # <<>>)
    => LET q == call[1]
           caller == _normalize_opus_pc_id(IF q.caller_opus_pc_id # ""
                                           THEN q.caller_opus_pc_id ELSE q.opus_pc_id)
           latest == scanVerdict.entries[1].row
           Method(id, m) == \E k \in 1..Len(refFile.rows) :
                               /\ refFile.rows[k].code_history_id = id
                               /\ refFile.rows[k].scan_method = m
           tried == \E i \in 1..Len(scanFile.rows) :
                       /\ scanFile.rows[i].coupon_code = q.coupon_code
                       /\ caller # ""
                       /\ _normalize_opus_pc_id(scanFile.rows[i].opus_pc_id) = caller
                       /\ Method(scanFile.rows[i].id, "M")
           advised == \E k \in 1..Len(scanVerdict.advice) :
                         scanVerdict.advice[k].type = "CAMERA_USED_NO_MANUAL_TRY"
       IN  /\ advised <=> (q.coupon_code # "" /\ Method(latest.id, "C") /\ ~tried)
           /\ tried => scanVerdict.message.kind # "camera_used_enter_code_manually"

\* Customer 2, stored without the PC- prefix, scanned the code with the
\* camera and entered it manually; asked by caller PC-000002 the verdict
\* still advises to enter the code manually.
C28_Witness ==
    /\ scanVerdict.success
    /\ call # <<>>
    /\ call[1].caller_opus_pc_id = "PC-000002"
    /\ Len(scanFile.rows) = 1
    /\ scanFile.rows[1].opus_pc_id = "2"
    /\ Len(refFile.rows) = 2
    /\ refFile.rows[1].scan_method = "C"
    /\ refFile.rows[2].scan_method = "M"
    /\ refFile.rows[1].code_history_id = 1
    /\ refFile.rows[2].code_history_id = 1
    /\ \E k \in 1..Len(scanVerdict.advice) :
           scanVerdict.advice[k].type = "CAMERA_USED_NO_MANUAL_TRY"
    /\ scanVerdict.message.kind = "camera_used_enter_code_manually"

\* ------------------------------------------------------------------------
\* The four evaluators on one record store
\* ------------------------------------------------------------------------

\* Each file is missing or holds the record of customer 1; the transfer
\* ledger may also be empty or hold a transfer of customer 2 only.
LookupBlockFiles ==
    {[exists |-> FALSE, rows |-> <<>>]}
    \cup {[exists |-> TRUE, rows |-> <<r>>] :
             r \in {b \in BlockRows : /\ b.block_status \in {"U", "A"}
                                       /\ b.block_status_date = Blank
                                       /\ b.block_through = ""}}

LookupKycFiles ==
    {[exists |-> FALSE, rows |-> <<>>]}
    \cup {[exists |-> TRUE, rows |-> <<r>>] :
             r \in {k \in KycRows : /\ k.kyc_status \in {"F", "X"}
                                     /\ k.is_aadhar_added = "true"
                                     /\ k.is_pan_added = "true"
                                     /\ k.is_bank_added = "true"
                                     /\ k.is_upi_added = "false"
                                     /\ k.data_created = 1}}

LookupTransferFiles ==
    {[exists |-> FALSE, rows |-> <<>>], EmptyFile}
    \cup {[exists |-> TRUE, rows |-> WithIds(<<t>>)] :
             t \in {x \in TransferShapes : /\ x.status = "Y"
                                            /\ x.created_at = 1
                                            /\ x.updated_at = Blank}}

LookupPointFiles ==
    {f \in RedeemPointFiles : ~f.exists \/ f.rows[1].balance = 600}

LookupScanFiles ==
    {[exists |-> FALSE, rows |-> <<>>]}
    \cup {[exists |-> TRUE, rows |-> WithIds(<<r>>)] :
             r \in {x \in StatusShapes : x.status = "Y"}}

InitLookup ==
    /\ blockFile \in LookupBlockFiles
    /\ kycFile \in LookupKycFiles
    /\ transferFile \in LookupTransferFiles
    /\ pointFile \in LookupPointFiles
    /\ scanFile \in LookupScanFiles
    /\ refFile = [exists |-> FALSE, rows |-> <<>>]
    /\ blockVerdict = NoVerdict
    /\ kycVerdict = NoVerdict
    /\ balanceResult = NoVerdict
    /\ redeemVerdict = NoVerdict
    /\ scanVerdict = NoVerdict
    /\ call = <<>>
    /\ StoreIdle

\* One call of one of the four evaluators.  The evaluators keep nothing
\* between calls and leave the files alone, so a run holds one call.
NextLookup ==
    \/ call = <<>> /\ CheckAccountBlockStatus
    \/ call = <<>> /\ KycStatusChecker
    \/ call = <<>> /\ GetCashTransferHistory
    \/ call = <<>> /\ QueryCodeHistory

SpecLookup == InitLookup /\ [][NextLookup]_vars

\* The result for a missing data file, in the three evaluators that return
\* an error text for it.
SourceUnavailable == [success |-> FALSE, error |-> "data_file_not_found"]

BlockNotFound(q) ==
    [success |-> TRUE, customer_found |-> FALSE,
     message |-> [text |-> "no_matching_customer"],
     query |-> [opus_id |-> q.opus_id, mobile_number |-> q.mobile_number]]

KycNotFound == [success |-> FALSE, error |-> "no_customer_found"]

\* C18: in each of the four evaluators a call whose identifier matches no
\* record of an existing file returns a result that says so (KYC: "no
\* customer found"; block: customer_found false with "no matching customer";
\* scan: "no matching scan records" with the query; redemption: no entries
\* and "no prior cash transfers found"), never the result of the exception
\* handler; and this result is returned only then: a call that matches a
\* record returns a verdict on that record, and a call on a missing file
\* returns the missing-file result.
C18_NotFoundIsReportedAndDistinct ==
    call # <<>>
    => LET q == call[1] IN
       /\ blockVerdict # NoVerdict
          => LET given == q.opus_id # "" \/ q.mobile_number # ""
                 matched == /\ blockFile.exists
                            /\ \/ q.opus_id \in {"1", "PC-000001"}
                               \/ q.mobile_number = "9000000001"
             IN  /\ (blockVerdict = BlockNotFound(q))
                     <=> (given /\ blockFile.exists /\ ~matched)
                 /\ (blockVerdict = SourceUnavailable)
                     <=> (given /\ ~blockFile.exists)
                 /\ (given /\ matched)
                    => /\ blockVerdict.success
                       /\ "customer_found" \notin DOMAIN blockVerdict
                       /\ blockVerdict.customer.opus_id = "1"
       /\ kycVerdict # NoVerdict
          => LET matched == kycFile.exists /\ q.opus_id = "1"
             IN  /\ (kycVerdict = KycNotFound) <=> (kycFile.exists /\ ~matched)
                 /\ (kycVerdict = SourceUnavailable) <=> ~kycFile.exists
                 /\ KycNotFound # SourceUnavailable
                 /\ matched => kycVerdict.success /\ kycVerdict.opus_id = "1"
       /\ redeemVerdict # NoVerdict
          => LET given == q.opus_pc_id # ""
                 matched == /\ transferFile.exists
                            /\ \E i \in 1..Len(transferFile.rows) :
                                   transferFile.rows[i].opus_pc_id = "PC-000001"
                 notFound == /\ redeemVerdict.success
                             /\ redeemVerdict.entries = <<>>
                             /\ redeemVerdict.summary.total_records = 0
                             /\ redeemVerdict.message.head
                                    = "no_prior_cash_transfers_found"
             IN  /\ notFound <=> (given /\ transferFile.exists /\ ~matched)
                 /\ (redeemVerdict = SourceUnavailable) <=> ~transferFile.exists
                 /\ (given /\ matched)
                    => /\ redeemVerdict.success
                       /\ redeemVerdict.entries # <<>>
                       /\ redeemVerdict.message.head = "latest_transfer"
       /\ scanVerdict # NoVerdict
          => LET given == q.opus_pc_id # "" \/ q.coupon_code # ""
                 matched ==
                     /\ scanFile.exists
                     /\ \E i \in 1..Len(scanFile.rows) :
                            /\ (q.opus_pc_id = ""
                                \/ scanFile.rows[i].opus_pc_id = q.opus_pc_id)
                            /\ (q.coupon_code = ""
                                \/ scanFile.rows[i].coupon_code = q.coupon_code)
             IN  /\ (scanVerdict = ScanNotFound(q))
                     <=> (given /\ scanFile.exists /\ ~matched)
                 /\ (scanVerdict = SourceUnavailable)
                     <=> (given /\ ~scanFile.exists)
                 /\ ScanNotFound(q) # SourceUnavailable
                 /\ (given /\ matched)
                    => scanVerdict.success /\ scanVerdict.entries # <<>>

\* A KYC call for customer 2 on a file that holds customer 1 only: "no
\* customer found".
C18_Witness ==
    /\ call # <<>>
    /\ kycFile.exists
    /\ kycFile.rows[1].opus_id = "1"
    /\ call[1] = [opus_id |-> "2"]
    /\ kycVerdict = KycNotFound

\* ------------------------------------------------------------------------
\* Complaint and enquiry store (complaint_manager.py)
\*
\* data/complaints.json holds one JSON list with the complaint and the
\* enquiry records.  The file is "missing", holds a "list", holds JSON that
\* is not a list (an "object"), or is "undecodable"; for an undecodable file
\* records are the records whose text the file still holds.  A ticket number
\* is the text prefix + YYYYMMDD + four-digit count, kept here as the three
\* parts.
\* ------------------------------------------------------------------------

\* Records a run creates at most.
MaxRecords == 3

\* Days a run spans at most.
MaxDay == 2

\* What json.load hands back: the list, an empty list for a missing or an
\* undecodable file, the object otherwise.
_load_complaints(file) ==
    IF file.state = "missing" THEN [is_list |-> TRUE, items |-> <<>>]
    ELSE IF file.state = "undecodable" THEN [is_list |-> TRUE, items |-> <<>>]
    ELSE IF file.state = "object" THEN [is_list |-> FALSE, items |-> <<>>]
    ELSE [is_list |-> TRUE, items |-> file.records]

\* Counts every record of the list, counted from its start.
TicketNumberOff(prefix, day, items) ==
    [prefix |-> prefix, date |-> day, seq |-> Len(items)]

TicketNumber(prefix, day, items) ==
    [prefix |-> prefix, date |-> day, seq |-> Len(items) + 1]

\* The file the call saves and the result it returns.  Appending to what is
\* not a list raises, and the call returns the error without saving.
create_complaint_tool(file, day, opus_id, complaint_type, priority) ==
    LET complaints == _load_complaints(file)
        complaint_number == TicketNumber("KYC", day, complaints.items)
        timeline_days == IF priority = "high" THEN 3 ELSE 7
        new_complaint ==
            [complaint_number |-> complaint_number,
             opus_id |-> opus_id,
             type |-> complaint_type,
             priority |-> priority,
             status |-> "active",
             created_date |-> day,
             timeline_days |-> timeline_days]
    IN  IF ~complaints.is_list
        THEN [file |-> file, saved |-> FALSE,
              result |-> [success |-> FALSE,
                          error |-> "Error creating complaint"]]
        ELSE [file |-> [state |-> "list",
                        records |-> Append(complaints.items, new_complaint)],
              saved |-> TRUE,
              result |-> [success |-> TRUE,
                          complaint_created |-> TRUE,
                          complaint_number |-> complaint_number,
                          timeline_days |-> timeline_days,
                          complaint_details |-> new_complaint]]

create_enquiry_tool(file, day, opus_id, enquiry_type) ==
    LET complaints == _load_complaints(file)
        enquiry_number == TicketNumber("ENQ", day, complaints.items)
        new_enquiry ==
            [enquiry_number |-> enquiry_number,
             opus_id |-> opus_id,
             type |-> "enquiry",
             enquiry_type |-> enquiry_type,
             status |-> "logged",
             created_date |-> day]
    IN  IF ~complaints.is_list
        THEN [file |-> file, saved |-> FALSE,
              result |-> [success |-> FALSE,
                          error |-> "Error creating enquiry"]]
        ELSE [file |-> [state |-> "list",
                        records |-> Append(complaints.items, new_enquiry)],
              saved |-> TRUE,
              result |-> [success |-> TRUE,
                          enquiry_created |-> TRUE,
                          enquiry_number |-> enquiry_number,
                          enquiry_details |-> new_enquiry]]

\* The store before the first call of a run: no file, an empty list, an
\* object, or a file whose text holds earlier records and no longer decodes.
InitStore ==
    /\ \/ complaintsFile \in
            {[state |-> st, records |-> <<>>] : st \in {"missing", "list", "object"}}
       \/ LET one == create_enquiry_tool([state |-> "list", records |-> <<>>],
                                          1, "PC-000002", "General").file
              two == create_complaint_tool(one, 1, "PC-000002", "standard",
                                           "standard").file
          IN  complaintsFile \in
                {[state |-> "undecodable", records |-> f.records] :
                   f \in {one, two}}
    /\ today = 1
    /\ toolResult = NoVerdict
    /\ workers = [w \in 1..MaxWorkers |-> [pc |-> "idle", outcome |-> <<>>]]
    /\ call = <<>>
    /\ blockFile = EmptyFile /\ blockVerdict = NoVerdict
    /\ OthersIdleForBlock

NextDay ==
    /\ today < MaxDay
    /\ today' = today + 1
    /\ UNCHANGED <<complaintsFile, toolResult, workers, call,
                   blockVars, kycVars, redeemVars, scanVars>>

CreateComplaintTool ==
    /\ Len(complaintsFile.records) < MaxRecords
    /\ \E priority \in {"standard", "high"} :
          LET done == create_complaint_tool(complaintsFile, today, "PC-000001",
                                            "standard", priority)
          IN  /\ complaintsFile' = done.file
              /\ toolResult' = done.result
              /\ call' = <<[tool |-> "create_complaint_tool",
                            priority |-> priority]>>
    /\ UNCHANGED <<today, workers, blockVars, kycVars, redeemVars, scanVars>>

CreateEnquiryTool ==
    /\ Len(complaintsFile.records) < MaxRecords
    /\ LET done == create_enquiry_tool(complaintsFile, today, "PC-000001",
                                       "General")
       IN  /\ complaintsFile' = done.file
           /\ toolResult' = done.result
           /\ call' = <<[tool |-> "create_enquiry_tool"]>>
    /\ UNCHANGED <<today, workers, blockVars, kycVars, redeemVars, scanVars>>

\* Past 30 days the tool calls create_complaint_tool itself.
AutoCreateComplaintTool ==
    /\ Len(complaintsFile.records) < MaxRecords
    /\ \E days_since_kyc \in {30, 31} :
          /\ IF days_since_kyc > 30
             THEN LET complaint_result ==
                          create_complaint_tool(complaintsFile, today,
                                                "PC-000001", "high_priority",
                                                "high")
                  IN  /\ complaintsFile' = complaint_result.file
                      /\ toolResult' =
                           IF complaint_result.result.success
                           THEN [success |-> TRUE,
                                 auto_complaint_created |-> TRUE,
                                 days_since_kyc |-> days_since_kyc,
                                 complaint_number |->
                                   complaint_result.result.complaint_number,
                                 complaint_details |->
                                   complaint_result.result.complaint_details]
                           ELSE [success |-> FALSE,
                                 error |-> "Failed to create auto-complaint"]
             ELSE /\ complaintsFile' = complaintsFile
                  /\ toolResult' = [success |-> TRUE,
                                    auto_complaint_created |-> FALSE,
                                    days_since_kyc |-> days_since_kyc,
                                    days_remaining |-> 30 - days_since_kyc]
          /\ call' = <<[tool |-> "auto_create_complaint_tool",
                        days_since_kyc |-> days_since_kyc]>>
    /\ UNCHANGED <<today, workers, blockVars, kycVars, redeemVars, scanVars>>

\* The enquiry branches call create_enquiry_tool without its first
\* argument, context: the call raises and the tool returns its error.
CreateRecordFromCodeHistory ==
    /\ \E latest_status \in {"E", "R", "Y"},
          advice_set \in {{}, {"CREATE_COMPLAINT_FOR_FRAUD_SCAN"},
                          {"WRONG_CODE_TYPE"}, {"REJECTED_PROFILE"}} :
          /\ toolResult' =
               IF "CREATE_COMPLAINT_FOR_FRAUD_SCAN" \in advice_set
               THEN [success |-> TRUE, requires_confirmation |-> TRUE,
                     recommendation |-> "create_complaint",
                     proposed_complaint |->
                       [complaint_type |-> "standard",
                        subject |-> "QR code scanned by different user",
                        priority |-> "standard"]]
               ELSE IF latest_status = "E"
                       \/ "WRONG_CODE_TYPE" \in advice_set
                       \/ "ADVISE_WAIT" \in advice_set
                       \/ "GEO_RESTRICTED" \in advice_set
                       \/ latest_status = "G"
               THEN [success |-> FALSE,
                     error |-> "Error creating record from code history"]
               ELSE IF "REJECTED_PROFILE" \in advice_set
                       \/ latest_status \in {"R", "Z"}
               THEN [success |-> TRUE, requires_confirmation |-> TRUE,
                     recommendation |-> "create_complaint",
                     proposed_complaint |->
                       [complaint_type |-> "standard",
                        subject |-> "Profile rejected",
                        priority |-> "standard"]]
               ELSE [success |-> FALSE,
                     error |-> "Error creating record from code history"]
          /\ call' = <<[tool |-> "create_record_from_code_history",
                        latest_status |-> latest_status,
                        advice_types |-> advice_set]>>
    /\ UNCHANGED <<complaintsFile, today, workers,
                   blockVars, kycVars, redeemVars, scanVars>>

CreateRecordFromAccountBlock ==
    /\ \E status \in {"U", "A", "M", "P", "X"},
          advice_set \in {{}, {"WAIT_UNTIL_48_HOURS"},
                          {"RAISE_COMPLAINT_OVER_48_HOURS"}} :
          /\ toolResult' =
               IF status = "U" \/ status = ""
                  \/ (status = "A"
                      /\ "RAISE_COMPLAINT_OVER_48_HOURS" \notin advice_set)
                  \/ (status = "A" /\ "WAIT_UNTIL_48_HOURS" \in advice_set)
               THEN [success |-> FALSE,
                     error |-> "Error creating record from account block"]
               ELSE [success |-> TRUE, requires_confirmation |-> TRUE,
                     recommendation |-> "create_complaint",
                     proposed_complaint |->
                       [complaint_type |-> "standard",
                        subject |->
                          IF status = "A"
                          THEN "Auto-block not cleared after 48 hours"
                          ELSE IF status = "M"
                          THEN "Manual block - TSM review needed"
                          ELSE IF status = "P"
                          THEN "Permanent block - investigation needed"
                          ELSE "Unknown block status - investigation needed",
                        priority |-> "standard"]]
          /\ call' = <<[tool |-> "create_record_from_account_block",
                        block_status |-> status,
                        advice_types |-> advice_set]>>
    /\ UNCHANGED <<complaintsFile, today, workers,
                   blockVars, kycVars, redeemVars, scanVars>>

\* context is the run context of the call, which has no get, or a
\* dictionary with the keys the tool reads.
EnsureRecordCreationTool ==
    /\ \E context \in {[is_dict |-> FALSE, suggest_complaint |-> FALSE,
                        severity |-> ""]}
                      \cup [is_dict : {TRUE}, suggest_complaint : BOOLEAN,
                            severity : {"", "high", "fraud"}] :
          /\ toolResult' =
               IF ~context.is_dict
               THEN [success |-> FALSE, error |-> "Error ensuring record"]
               ELSE IF context.suggest_complaint
                       \/ context.severity \in {"high", "fraud"}
               THEN [success |-> TRUE, requires_confirmation |-> TRUE,
                     recommendation |-> "create_complaint",
                     proposed_complaint |->
                       [complaint_type |->
                          IF context.severity = "high"
                          THEN "high_priority" ELSE "standard",
                        subject |-> "General support",
                        priority |->
                          IF context.severity = "high"
                          THEN "high" ELSE "standard"]]
               ELSE [success |-> FALSE, error |-> "Error ensuring record"]
          /\ call' = <<[tool |-> "ensure_record_creation_tool",
                        context |-> context]>>
    /\ UNCHANGED <<complaintsFile, today, workers,
                   blockVars, kycVars, redeemVars, scanVars>>

\* Tool calls made one at a time.
NextStore ==
    \/ NextDay
    \/ CreateComplaintTool
    \/ CreateEnquiryTool
    \/ AutoCreateComplaintTool
    \/ CreateRecordFromCodeHistory
    \/ CreateRecordFromAccountBlock
    \/ EnsureRecordCreationTool

SpecStore == InitStore /\ [][NextStore]_vars

\* Create calls of job processes that share the file.  A call reads the
\* file, builds its record and the list to save, and then writes the list;
\* no lock is held between the read and the write.
LoadStep(w) ==
    /\ workers[w].pc = "idle"
    /\ \E done \in {create_complaint_tool(complaintsFile, today, "PC-000001",
                                          "standard", "standard"),
                    create_enquiry_tool(complaintsFile, today, "PC-000001",
                                        "General")} :
          workers' = [workers EXCEPT
                        ![w] = [pc |-> IF done.saved THEN "loaded" ELSE "done",
                                outcome |-> <<done>>]]
    /\ UNCHANGED <<complaintsFile, today, toolResult, call,
                   blockVars, kycVars, redeemVars, scanVars>>

SaveStep(w) ==
    /\ workers[w].pc = "loaded"
    /\ complaintsFile' = workers[w].outcome[1].file
    /\ workers' = [workers EXCEPT ![w].pc = "done"]
    /\ UNCHANGED <<today, toolResult, call,
                   blockVars, kycVars, redeemVars, scanVars>>

NextWorkers ==
    \/ NextDay
    \/ \E w \in 1..MaxWorkers : LoadStep(w)
    \/ \E w \in 1..MaxWorkers : SaveStep(w)

SpecWorkers == InitStore /\ [][NextWorkers]_vars

\* C30: over create_complaint_tool and create_enquiry_tool calls made one at
\* a time the store only grows at its end: a call that changes the file
\* adds exactly one record after the records the file held, which stay as
\* they were and where they were, whatever the file was when loaded, and a
\* call that returns an error leaves the file as it was.
C30_AppendOnlySequential ==
    [][/\ complaintsFile' # complaintsFile
            => /\ toolResult'.success
               /\ Len(complaintsFile'.records) = Len(complaintsFile.records) + 1
               /\ SubSeq(complaintsFile'.records, 1, Len(complaintsFile.records))
                    = complaintsFile.records
       /\ (toolResult' # toolResult /\ ~toolResult'.success)
            => complaintsFile' = complaintsFile]_vars

\* A successful enquiry call has left a list of two or more records.
C30_Witness ==
    /\ call # <<>>
    /\ call[1].tool = "create_enquiry_tool"
    /\ toolResult.success
    /\ complaintsFile.state = "list"
    /\ Len(complaintsFile.records) >= 2
    /\ complaintsFile.records[Len(complaintsFile.records)]
         = toolResult.enquiry_details

\* C26 (as the code has it): the numeric suffix of a stored record is its
\* place in the one list that holds complaints and enquiries of every date,
\* so among the records of one prefix and one date the suffixes rise
\* strictly in creation order and never repeat, with a gap wherever a record
\* of the other prefix or of another date lies before.
C26_SuffixIsPlaceInStore ==
    LET Number(r) == IF "complaint_number" \in DOMAIN r
                     THEN r.complaint_number ELSE r.enquiry_number
        records == complaintsFile.records
    IN  complaintsFile.state = "list"
          => /\ \A i \in 1..Len(records) :
                  /\ Number(records[i]).seq = i
                  /\ Number(records[i]).prefix
                       = IF records[i].type = "enquiry" THEN "ENQ" ELSE "KYC"
             /\ \A i, j \in 1..Len(records) :
                  (/\ i < j
                   /\ Number(records[i]).prefix = Number(records[j]).prefix
                   /\ Number(records[i]).date = Number(records[j]).date)
                    => Number(records[i]).seq < Number(records[j]).seq

\* An enquiry numbered 1 and, the same day, a complaint numbered 2.
C26_Witness ==
    /\ complaintsFile.state = "list"
    /\ Len(complaintsFile.records) = 2
    /\ complaintsFile.records[1].type = "enquiry"
    /\ complaintsFile.records[1].enquiry_number
         = [prefix |-> "ENQ", date |-> 1, seq |-> 1]
    /\ complaintsFile.records[2].type = "standard"
    /\ complaintsFile.records[2].complaint_number
         = [prefix |-> "KYC", date |-> 1, seq |-> 2]

\* C26 (as stated): among the stored records of one prefix and one date the
\* numeric suffixes are 1, 2, 3, ... in creation order.
C26_SuffixesPerPrefixAndDate ==
    LET Number(r) == IF "complaint_number" \in DOMAIN r
                     THEN r.complaint_number ELSE r.enquiry_number
        records == complaintsFile.records
        Before(i) ==
            {k \in 1..i :
               /\ Number(records[k]).prefix = Number(records[i]).prefix
               /\ Number(records[k]).date = Number(records[i]).date}
    IN  complaintsFile.state = "list"
          => \A i \in 1..Len(records) :
                Number(records[i]).seq = Cardinality(Before(i))

\* C27: a record reaches the store only through a create call; every
\* recommending tool returns and leaves the complaints file as it was.
C27_OnlyCreateCallsWrite ==
    [][complaintsFile' # complaintsFile
         => /\ call' # <<>>
            /\ call'[1].tool \in {"create_complaint_tool",
                                  "create_enquiry_tool"}]_vars

\* auto_create_complaint_tool, called for 31 days, has stored a complaint
\* and returned its number.
C27_Witness ==
    /\ call # <<>>
    /\ call[1].tool = "auto_create_complaint_tool"
    /\ call[1].days_since_kyc = 31
    /\ toolResult.success
    /\ toolResult.auto_complaint_created
    /\ complaintsFile.state = "list"
    /\ Len(complaintsFile.records) >= 1
    /\ LET last == complaintsFile.records[Len(complaintsFile.records)]
       IN  /\ last.type = "high_priority"
           /\ last.complaint_number = toolResult.complaint_number

\* C25: whatever the interleaving of the create calls of several processes,
\* the record of every finished call is in the store and no two finished
\* calls gave out the same sequence number.
C25_ConcurrentCreatesSerialized ==
    LET Number(r) == IF "complaint_number" \in DOMAIN r
                     THEN r.complaint_number ELSE r.enquiry_number
        Created(w) ==
            LET list == workers[w].outcome[1].file.records
            IN  list[Len(list)]
        Finished == {w \in 1..MaxWorkers :
                       /\ workers[w].pc = "done"
                       /\ workers[w].outcome[1].saved}
    IN  /\ \A w \in Finished :
              \E i \in 1..Len(complaintsFile.records) :
                 complaintsFile.records[i] = Created(w)
        /\ \A v, w \in Finished :
              v # w => Number(Created(v)).seq # Number(Created(w)).seq

\* Two calls have finished with one sequence number and the store holds
\* one record.
C25_Witness ==
    /\ \A w \in 1..2 : workers[w].pc = "done" /\ workers[w].outcome[1].saved
    /\ workers[1].outcome[1].result.success
    /\ workers[2].outcome[1].result.success
    /\ workers[1].outcome[1].file.records[1].type = "standard"
    /\ workers[2].outcome[1].file.records[1].type = "enquiry"
    /\ workers[1].outcome[1].result.complaint_number.seq = 1
    /\ workers[2].outcome[1].result.enquiry_number.seq = 1
    /\ Len(complaintsFile.records) = 1

====
